---- MODULE Spec2Model ----
(***************************************************************************)
(* A model of the JMESPath tree interpreter vendored in this repository    *)
(* (jmespath/visitor.py): the dispatch core Visitor.visit with its method  *)
(* cache, and the node handlers of TreeInterpreter.                        *)
(*                                                                         *)
(* Python values are records [k, n, s, items, keys]:                       *)
(*   k      the Python type: "NoneType", "bool", "int", "float", "str",    *)
(*          "list" or "dict"                                               *)
(*   n      the numeric value of a bool (0/1), an int or a float (only     *)
(*          integral floats are modelled: PyFloat(1) is 1.0)                 *)
(*   s      the text of a str                                              *)
(*   items  the elements of a list, or the values of a dict                *)
(*   keys   the keys of a dict, keys[i] mapping to items[i]                *)
(* Every field is present in every value so that any two values can be     *)
(* compared.                                                               *)
(***************************************************************************)
EXTENDS Integers, Sequences, FiniteSets, TLC

VARIABLES pc, node, value, result, method_cache, visited, dispatched, threads, writes, heap,
          businessDF, fact_reco_model, request

\* The module globals of reco.py and the request being served
reco_engine == <<businessDF, fact_reco_model, request>>

vars == <<pc, node, value, result, method_cache, visited, dispatched, threads, writes, heap,
          businessDF, fact_reco_model, request>>

----------------------------------------------------------------------------
(* Python values *)

PyNone == [k |-> "NoneType", n |-> 0, s |-> "", items |-> <<>>, keys |-> <<>>]

PyBool(b) == [k |-> "bool", n |-> IF b THEN 1 ELSE 0, s |-> "", items |-> <<>>, keys |-> <<>>]

PyInt(i) == [k |-> "int", n |-> i, s |-> "", items |-> <<>>, keys |-> <<>>]

PyFloat(i) == [k |-> "float", n |-> i, s |-> "", items |-> <<>>, keys |-> <<>>]

PyStr(t) == [k |-> "str", n |-> 0, s |-> t, items |-> <<>>, keys |-> <<>>]

PyList(xs) == [k |-> "list", n |-> 0, s |-> "", items |-> xs, keys |-> <<>>]

PyDict(ks, xs) == [k |-> "dict", n |-> 0, s |-> "", items |-> xs, keys |-> ks]

PyTrue == PyBool(TRUE)

PyFalse == PyBool(FALSE)

IsNumeric(x) == x.k \in {"bool", "int", "float"}

IndexOf(ks, key) == CHOOSE i \in 1..Len(ks) : ks[i] = key

HasKey(d, key) == \E i \in 1..Len(d.keys) : d.keys[i] = key

DictGet(d, key) == IF HasKey(d, key) THEN d.items[IndexOf(d.keys, key)] ELSE PyNone

\* An assignment that leaves an existing key alone
DictSet_keeps_first(d, key, v) ==
    IF HasKey(d, key) THEN d
    ELSE PyDict(Append(d.keys, key), Append(d.items, v))

\* d[key] = v: an existing key keeps its place and takes the new value
DictSet(d, key, v) ==
    IF HasKey(d, key)
    THEN PyDict(d.keys, [d.items EXCEPT ![IndexOf(d.keys, key)] = v])
    ELSE PyDict(Append(d.keys, key), Append(d.items, v))

RECURSIVE PyEq(_, _)
\* Python's x == y on the values above
PyEq(x, y) ==
    IF IsNumeric(x) /\ IsNumeric(y) THEN x.n = y.n
    ELSE IF x.k # y.k THEN FALSE
    ELSE CASE x.k = "NoneType" -> TRUE
           [] x.k = "str" -> x.s = y.s
           [] x.k = "list" ->
                /\ Len(x.items) = Len(y.items)
                /\ \A i \in 1..Len(x.items) : PyEq(x.items[i], y.items[i])
           [] x.k = "dict" ->
                /\ Len(x.keys) = Len(y.keys)
                /\ \A i \in 1..Len(x.keys) :
                      /\ HasKey(y, x.keys[i])
                      /\ PyEq(x.items[i], DictGet(y, x.keys[i]))
           [] OTHER -> FALSE

\* x is 0 or x is 1: identity with the interned small ints
IsZeroOrOne(x) == x.k = "int" /\ x.n \in {0, 1}

\* x is True or x is False
IsTrueOrFalse(x) == x.k = "bool"

\* The special case without its elif branch
_is_special_integer_case_first_branch(x, y) ==
    IF IsZeroOrOne(x) THEN IsTrueOrFalse(y) ELSE FALSE

_is_special_integer_case(x, y) ==
    IF IsZeroOrOne(x) THEN IsTrueOrFalse(y)
    ELSE IF IsZeroOrOne(y) THEN IsTrueOrFalse(x)
    ELSE FALSE

_equals(x, y) == IF _is_special_integer_case(x, y) THEN FALSE ELSE PyEq(x, y)

----------------------------------------------------------------------------
(* Python 2 ordering, as operator.lt/le/gt/ge compute it on these values *)

\* The strings of the model in Python's order
StrOrder == <<"", "a", "b", "c", "fallback", "not-a-list", "x">>

StrRank(t) == CHOOSE i \in 1..Len(StrOrder) : StrOrder[i] = t

Sign(i) == IF i < 0 THEN -1 ELSE IF i > 0 THEN 1 ELSE 0

\* CPython 2 default_3way_compare: None first, then numbers, then by type name
TypeRank(x) ==
    CASE x.k = "NoneType" -> 0
      [] IsNumeric(x) -> 1
      [] x.k = "_Expression" -> 2
      [] x.k = "dict" -> 3
      [] x.k = "list" -> 4
      [] x.k = "str" -> 5

\* The keys of dict a that are missing from b or map to a different value
DiffKeys(a, b) ==
    {i \in 1..Len(a.keys) :
        ~HasKey(b, a.keys[i]) \/ ~PyEq(a.items[i], DictGet(b, a.keys[i]))}

\* dict_compare's characterize: the index of the smallest such key
Characterize(a, b) ==
    CHOOSE i \in DiffKeys(a, b) :
        \A j \in DiffKeys(a, b) : StrRank(a.keys[i]) <= StrRank(a.keys[j])

RECURSIVE PyCmp(_, _)
PyCmp(x, y) ==
    IF IsNumeric(x) /\ IsNumeric(y) THEN Sign(x.n - y.n)
    ELSE IF TypeRank(x) # TypeRank(y)
    THEN (IF TypeRank(x) < TypeRank(y) THEN -1 ELSE 1)
    ELSE CASE x.k = "str" -> Sign(StrRank(x.s) - StrRank(y.s))
           [] x.k = "list" ->
                LET differ == {i \in 1..Len(x.items) :
                                  i <= Len(y.items) /\ ~PyEq(x.items[i], y.items[i])}
                IN  IF differ = {}
                    THEN Sign(Len(x.items) - Len(y.items))
                    ELSE LET i == CHOOSE i \in differ : \A j \in differ : i <= j
                         IN  PyCmp(x.items[i], y.items[i])
           [] x.k = "dict" ->
                IF Len(x.keys) # Len(y.keys)
                THEN Sign(Len(x.keys) - Len(y.keys))
                ELSE IF DiffKeys(x, y) = {} THEN 0
                ELSE LET i == Characterize(x, y)
                         j == Characterize(y, x)
                     IN  IF x.keys[i] # y.keys[j]
                         THEN Sign(StrRank(x.keys[i]) - StrRank(y.keys[j]))
                         ELSE PyCmp(x.items[i], y.items[j])
           [] OTHER -> 0

\* Python truth value of x, as `if x:` tests it
PyTruthy(x) ==
    CASE x.k = "NoneType" -> FALSE
      [] IsNumeric(x) -> x.n # 0
      [] x.k = "str" -> x.s # ""
      [] x.k \in {"list", "dict"} -> Len(x.items) > 0
      [] OTHER -> TRUE

\* value[i] on a list: 0-based, negative i counts from the end
ListIndex(xs, i) ==
    IF 0 <= i /\ i < Len(xs) THEN xs[i + 1]
    ELSE xs[Len(xs) + i + 1]

ListIndexInRange(xs, i) == -Len(xs) <= i /\ i < Len(xs)

----------------------------------------------------------------------------
(* Expression nodes: node['type'], node['value'], node['children'] *)

Node(type, val, children) == [type |-> type, value |-> val, children |-> children]

\* An _Expression object holding a node
PyExpression(expression) ==
    [k |-> "_Expression", n |-> 0, s |-> "", items |-> <<expression>>, keys |-> <<>>]

----------------------------------------------------------------------------
(* The interpreter.  A visit takes the node, the current value and the     *)
(* interpreter state st = [mc, log, calls] and gives [exc, val, st]:       *)
(*   exc    "" on a normal return, else the name of the exception raised   *)
(*   val    the value returned                                             *)
(*   mc     self._method_cache, a function from node types to method names *)
(*   log    the nodes visit() was called on, in call order                 *)
(*   calls  the calls of the function library, in call order: the name,    *)
(*          the arguments and the length of log when the call was made     *)

Return(v, st) == [exc |-> "", val |-> v, st |-> st]

Raise(e, st) == [exc |-> e, val |-> PyNone, st |-> st]

\* The visit_* methods TreeInterpreter defines
VisitMethods ==
    {"sub_expression", "field", "comparator", "current", "expref",
     "function_expression", "filter_projection", "flatten", "identity",
     "index", "index_expression", "key_val_pair", "literal",
     "multi_select_dict", "multi_select_list", "or_expression", "pipe",
     "projection", "value_projection"}

\* getattr(self, 'visit_%s' % node['type'], self.default_visit)
getattr_visit(node_type) ==
    IF node_type \in VisitMethods THEN node_type ELSE "default_visit"

ComparatorNames == {"le", "ne", "lt", "lte", "eq", "gt", "gte"}

\* The comparator table with ne as Python's raw inequality
COMPARATOR_FUNC_raw_ne(name, x, y) ==
    CASE name = "le" -> PyCmp(x, y) <= 0
      [] name = "ne" -> ~PyEq(x, y)
      [] name = "lt" -> PyCmp(x, y) < 0
      [] name = "lte" -> PyCmp(x, y) <= 0
      [] name = "eq" -> _equals(x, y)
      [] name = "gt" -> PyCmp(x, y) > 0
      [] name = "gte" -> PyCmp(x, y) >= 0

COMPARATOR_FUNC(name, x, y) ==
    CASE name = "le" -> PyCmp(x, y) <= 0
      [] name = "ne" -> ~_equals(x, y)
      [] name = "lt" -> PyCmp(x, y) < 0
      [] name = "lte" -> PyCmp(x, y) <= 0
      [] name = "eq" -> _equals(x, y)
      [] name = "gt" -> PyCmp(x, y) > 0
      [] name = "gte" -> PyCmp(x, y) >= 0

\* _is_false by Python's own truth value, which counts zero as false
_is_false_python(v) == ~PyTruthy(v)

_is_false(v) ==
    \/ PyEq(v, PyStr(""))
    \/ PyEq(v, PyList(<<>>))
    \/ PyEq(v, PyDict(<<>>, <<>>))
    \/ v.k = "NoneType"
    \/ (v.k = "bool" /\ v.n = 0)

\* value.get(key): only a dict has the attribute
dict_get(v, key, st) ==
    IF v.k = "dict" THEN Return(DictGet(v, key), st) ELSE Raise("AttributeError", st)

\* base.values(): only a dict has the attribute
dict_values(v, st) ==
    IF v.k = "dict" THEN Return(PyList(v.items), st) ELSE Raise("AttributeError", st)

\* value[i] on a list
list_getitem(v, i, st) ==
    IF ListIndexInRange(v.items, i) THEN Return(ListIndex(v.items, i), st)
    ELSE Raise("IndexError", st)

StrLen(t) ==
    CASE t = "" -> 0
      [] t \in {"a", "b", "c", "x"} -> 1
      [] t = "fallback" -> 8
      [] t = "not-a-list" -> 10

RECURSIVE visit(_, _, _), Invoke(_, _, _, _), ChainLoop(_, _, _, _)
RECURSIVE MapLoop(_, _, _, _, _)

\* The function map(&expr, list): the interpreter is entered again with the
\* expression of the _Expression, once for each element
MapLoop(expression, elements, i, collected, st) ==
    IF i > Len(elements) THEN Return(PyList(collected), st)
    ELSE LET r == visit(expression, elements[i], st)
         IN  IF r.exc # "" THEN r
             ELSE MapLoop(expression, elements, i + 1, Append(collected, r.val), r.st)

\* The functions the library registers
FunctionNames == {"length", "map"}

\* self._functions.call_function(name, resolved_args): the function library.
\* An unknown name, a wrong number of arguments or an argument of the wrong
\* type ends in a FunctionError
call_function(name, resolved_args, st) ==
    LET st1 == [st EXCEPT !.calls = Append(@, [name |-> name, args |-> resolved_args,
                                               at |-> Len(st.log)])]
    IN  IF name = "length" /\ Len(resolved_args) = 1
                           /\ resolved_args[1].k \in {"str", "list", "dict"}
        THEN Return(PyInt(IF resolved_args[1].k = "str" THEN StrLen(resolved_args[1].s)
                          ELSE Len(resolved_args[1].items)), st1)
        ELSE IF name = "map" /\ Len(resolved_args) = 2
                             /\ resolved_args[1].k = "_Expression"
                             /\ resolved_args[2].k = "list"
        THEN MapLoop(resolved_args[1].items[1], resolved_args[2].items, 1, <<>>, st1)
        ELSE Raise("FunctionError", st1)

RECURSIVE ArgsLoop(_, _, _, _, _), FilterLoop(_, _, _, _, _)
RECURSIVE FlattenLoop(_, _, _), DictLoop(_, _, _, _, _), ListLoop(_, _, _, _, _)
RECURSIVE ProjectLoop(_, _, _, _, _)

\* result = value; for node in children: result = self.visit(node, result)
ChainLoop(children, i, res, st) ==
    IF i > Len(children) THEN Return(res, st)
    ELSE LET r == visit(children[i], res, st)
         IN  IF r.exc # "" THEN r ELSE ChainLoop(children, i + 1, r.val, r.st)

visit_sub_expression(n, v, st) == ChainLoop(n.children, 1, v, st)

\* visit_field without the AttributeError handler
visit_field_unguarded(n, v, st) == dict_get(v, n.value.s, st)

visit_field(n, v, st) ==
    LET r == dict_get(v, n.value.s, st)
    IN  IF r.exc = "AttributeError" THEN Return(PyNone, st) ELSE r

\* visit_comparator handing its operands to the comparator in reverse
visit_comparator_swapped(n, v, st) ==
    IF n.value.s \notin ComparatorNames THEN Raise("KeyError", st)
    ELSE LET a == visit(n.children[1], v, st)
         IN  IF a.exc # "" THEN a
             ELSE LET b == visit(n.children[2], v, a.st)
                  IN  IF b.exc # "" THEN b
                      ELSE Return(PyBool(COMPARATOR_FUNC(n.value.s, b.val, a.val)), b.st)

visit_comparator(n, v, st) ==
    IF n.value.s \notin ComparatorNames THEN Raise("KeyError", st)
    ELSE LET a == visit(n.children[1], v, st)
         IN  IF a.exc # "" THEN a
             ELSE LET b == visit(n.children[2], v, a.st)
                  IN  IF b.exc # "" THEN b
                      ELSE Return(PyBool(COMPARATOR_FUNC(n.value.s, a.val, b.val)), b.st)

\* A current node that answers null for a value Python counts as false
visit_current_or_none(n, v, st) == Return(IF PyTruthy(v) THEN v ELSE PyNone, st)

visit_current(n, v, st) == Return(v, st)

\* An expref that evaluates its child before wrapping it
visit_expref_eager(n, v, st) ==
    LET r == visit(n.children[1], v, st)
    IN  IF r.exc # "" THEN r ELSE Return(PyExpression(n.children[1]), r.st)

visit_expref(n, v, st) == Return(PyExpression(n.children[1]), st)

\* for child in children: resolved_args.append(self.visit(child, value))
ArgsLoop(children, i, v, resolved_args, st) ==
    IF i > Len(children) THEN Return(PyList(resolved_args), st)
    ELSE LET r == visit(children[i], v, st)
         IN  IF r.exc # "" THEN r
             ELSE ArgsLoop(children, i + 1, v, Append(resolved_args, r.val), r.st)

\* A function_expression that calls the function library twice
visit_function_expression_twice(n, v, st) ==
    LET a == ArgsLoop(n.children, 1, v, <<>>, st)
    IN  IF a.exc # "" THEN a
        ELSE LET first == call_function(n.value.s, a.val.items, a.st)
             IN  IF first.exc # "" THEN first
                 ELSE call_function(n.value.s, a.val.items, first.st)

visit_function_expression(n, v, st) ==
    LET a == ArgsLoop(n.children, 1, v, <<>>, st)
    IN  IF a.exc # "" THEN a ELSE call_function(n.value.s, a.val.items, a.st)

\* for element in base: if visit(comparator_node, element): ... collected.append
FilterLoop(n, base, i, collected, st) ==
    IF i > Len(base) THEN Return(PyList(collected), st)
    ELSE LET c == visit(n.children[3], base[i], st)
         IN  IF c.exc # "" THEN c
             ELSE IF ~PyTruthy(c.val) THEN FilterLoop(n, base, i + 1, collected, c.st)
             ELSE LET current == visit(n.children[2], base[i], c.st)
                  IN  IF current.exc # "" THEN current
                      ELSE FilterLoop(n, base, i + 1,
                               IF current.val.k # "NoneType"
                               THEN Append(collected, current.val) ELSE collected,
                               current.st)

visit_filter_projection(n, v, st) ==
    LET base == visit(n.children[1], v, st)
    IN  IF base.exc # "" THEN base
        ELSE IF base.val.k # "list" THEN Return(PyNone, base.st)
        ELSE FilterLoop(n, base.val.items, 1, <<>>, base.st)

RECURSIVE FlattenLoop_deep(_, _, _)
\* A flatten that splices nested lists at every depth
FlattenLoop_deep(base, i, merged_list) ==
    IF i > Len(base) THEN merged_list
    ELSE FlattenLoop_deep(base, i + 1,
             IF base[i].k = "list"
             THEN merged_list \o FlattenLoop_deep(base[i].items, 1, <<>>)
             ELSE Append(merged_list, base[i]))

\* for element in base: extend with a list's elements, append anything else
FlattenLoop(base, i, merged_list) ==
    IF i > Len(base) THEN merged_list
    ELSE FlattenLoop(base, i + 1,
             IF base[i].k = "list" THEN merged_list \o base[i].items
             ELSE Append(merged_list, base[i]))

visit_flatten(n, v, st) ==
    LET base == visit(n.children[1], v, st)
    IN  IF base.exc # "" THEN base
        ELSE IF base.val.k # "list" THEN Return(PyNone, base.st)
        ELSE Return(PyList(FlattenLoop(base.val.items, 1, <<>>)), base.st)

visit_identity(n, v, st) == Return(v, st)

\* visit_index without the IndexError handler
visit_index_unguarded(n, v, st) ==
    IF v.k # "list" THEN Return(PyNone, st) ELSE list_getitem(v, n.value.n, st)

visit_index(n, v, st) ==
    IF v.k # "list" THEN Return(PyNone, st)
    ELSE LET r == list_getitem(v, n.value.n, st)
         IN  IF r.exc = "IndexError" THEN Return(PyNone, st) ELSE r

visit_index_expression(n, v, st) == ChainLoop(n.children, 1, v, st)

visit_key_val_pair(n, v, st) == visit(n.children[1], v, st)

visit_literal(n, v, st) == Return(n.value, st)

\* for child in children: collected[child['value']] = self.visit(child, value)
DictLoop(children, i, v, collected, st) ==
    IF i > Len(children) THEN Return(collected, st)
    ELSE LET r == visit(children[i], v, st)
         IN  IF r.exc # "" THEN r
             ELSE DictLoop(children, i + 1, v,
                      DictSet(collected, children[i].value.s, r.val), r.st)

visit_multi_select_dict(n, v, st) ==
    IF v.k = "NoneType" THEN Return(PyNone, st)
    ELSE DictLoop(n.children, 1, v, PyDict(<<>>, <<>>), st)

\* for child in children: collected.append(self.visit(child, value))
ListLoop(children, i, v, collected, st) ==
    IF i > Len(children) THEN Return(PyList(collected), st)
    ELSE LET r == visit(children[i], v, st)
         IN  IF r.exc # "" THEN r
             ELSE ListLoop(children, i + 1, v, Append(collected, r.val), r.st)

\* visit_multi_select_list without the test for None
visit_multi_select_list_unguarded(n, v, st) == ListLoop(n.children, 1, v, <<>>, st)

visit_multi_select_list(n, v, st) ==
    IF v.k = "NoneType" THEN Return(PyNone, st)
    ELSE ListLoop(n.children, 1, v, <<>>, st)

\* An or_expression that evaluates both sides before it chooses
visit_or_expression_eager(n, v, st) ==
    LET matched == visit(n.children[1], v, st)
    IN  IF matched.exc # "" THEN matched
        ELSE LET other == visit(n.children[2], v, matched.st)
             IN  IF other.exc # "" THEN other
                 ELSE IF _is_false(matched.val) THEN other
                 ELSE Return(matched.val, other.st)

\* An or_expression that turns a failure of its left side into its right side
visit_or_expression_recovers(n, v, st) ==
    LET matched == visit(n.children[1], v, st)
    IN  IF matched.exc # "" \/ _is_false(matched.val)
        THEN visit(n.children[2], v, matched.st)
        ELSE matched

visit_or_expression(n, v, st) ==
    LET matched == visit(n.children[1], v, st)
    IN  IF matched.exc # "" THEN matched
        ELSE IF _is_false(matched.val) THEN visit(n.children[2], v, matched.st)
        ELSE matched

\* A pipe that evaluates its last child on the current value
visit_pipe_unchained(n, v, st) ==
    IF Len(n.children) = 0 THEN Return(v, st)
    ELSE visit(n.children[Len(n.children)], v, st)

visit_pipe(n, v, st) == ChainLoop(n.children, 1, v, st)

RECURSIVE ProjectLoop_keeps_none(_, _, _, _, _)
\* The projection loop without the `is not None` test
ProjectLoop_keeps_none(n, base, i, collected, st) ==
    IF i > Len(base) THEN Return(PyList(collected), st)
    ELSE LET current == visit(n.children[2], base[i], st)
         IN  IF current.exc # "" THEN current
             ELSE ProjectLoop_keeps_none(n, base, i + 1,
                      Append(collected, current.val), current.st)

\* for element in base: current = visit(children[1], element); keep non-None
ProjectLoop(n, base, i, collected, st) ==
    IF i > Len(base) THEN Return(PyList(collected), st)
    ELSE LET current == visit(n.children[2], base[i], st)
         IN  IF current.exc # "" THEN current
             ELSE ProjectLoop(n, base, i + 1,
                      IF current.val.k # "NoneType"
                      THEN Append(collected, current.val) ELSE collected,
                      current.st)

visit_projection(n, v, st) ==
    LET base == visit(n.children[1], v, st)
    IN  IF base.exc # "" THEN base
        ELSE IF base.val.k # "list" THEN Return(PyNone, base.st)
        ELSE ProjectLoop(n, base.val.items, 1, <<>>, base.st)

\* visit_value_projection without the AttributeError handler
visit_value_projection_unguarded(n, v, st) ==
    LET base == visit(n.children[1], v, st)
    IN  IF base.exc # "" THEN base
        ELSE LET vals == dict_values(base.val, base.st)
             IN  IF vals.exc # "" THEN vals
                 ELSE ProjectLoop(n, vals.val.items, 1, <<>>, base.st)

\* A value_projection that also walks the elements of a list
visit_value_projection_over_lists(n, v, st) ==
    LET base == visit(n.children[1], v, st)
    IN  IF base.exc # "" THEN base
        ELSE IF base.val.k \notin {"dict", "list"} THEN Return(PyNone, base.st)
        ELSE ProjectLoop(n, base.val.items, 1, <<>>, base.st)

visit_value_projection(n, v, st) ==
    LET base == visit(n.children[1], v, st)
    IN  IF base.exc # "" THEN base
        ELSE LET vals == dict_values(base.val, base.st)
             IN  IF vals.exc = "AttributeError" THEN Return(PyNone, base.st)
                 ELSE ProjectLoop(n, vals.val.items, 1, <<>>, base.st)

\* A fallback that answers null instead of raising
default_visit_returns_none(n, v, st) == Return(PyNone, st)

default_visit(n, v, st) == Raise("NotImplementedError", st)

\* return method(node, *args, **kwargs)
Invoke(method, n, v, st) ==
    CASE method = "sub_expression" -> visit_sub_expression(n, v, st)
      [] method = "field" -> visit_field(n, v, st)
      [] method = "comparator" -> visit_comparator(n, v, st)
      [] method = "current" -> visit_current(n, v, st)
      [] method = "expref" -> visit_expref(n, v, st)
      [] method = "function_expression" -> visit_function_expression(n, v, st)
      [] method = "filter_projection" -> visit_filter_projection(n, v, st)
      [] method = "flatten" -> visit_flatten(n, v, st)
      [] method = "identity" -> visit_identity(n, v, st)
      [] method = "index" -> visit_index(n, v, st)
      [] method = "index_expression" -> visit_index_expression(n, v, st)
      [] method = "key_val_pair" -> visit_key_val_pair(n, v, st)
      [] method = "literal" -> visit_literal(n, v, st)
      [] method = "multi_select_dict" -> visit_multi_select_dict(n, v, st)
      [] method = "multi_select_list" -> visit_multi_select_list(n, v, st)
      [] method = "or_expression" -> visit_or_expression(n, v, st)
      [] method = "pipe" -> visit_pipe(n, v, st)
      [] method = "projection" -> visit_projection(n, v, st)
      [] method = "value_projection" -> visit_value_projection(n, v, st)
      [] OTHER -> default_visit(n, v, st)

\* A visit that calls what getattr resolved but stores visit_identity in the
\* cache when the type has no method of its own
visit_caching_another_method(n, v, st) ==
    LET node_type == n.type
        hit == node_type \in DOMAIN st.mc
        method == IF hit THEN st.mc[node_type] ELSE getattr_visit(node_type)
        stored == IF method = "default_visit" THEN "identity" ELSE method
        mc1 == IF hit THEN st.mc ELSE (node_type :> stored) @@ st.mc
    IN  Invoke(method, n, v, [st EXCEPT !.mc = mc1, !.log = Append(st.log, n)])

\* Visitor.visit: look the node type up in the cache, resolve and insert it
\* on a miss, then call the method
visit(n, v, st) ==
    LET node_type == n.type
        hit == node_type \in DOMAIN st.mc
        method == IF hit THEN st.mc[node_type] ELSE getattr_visit(node_type)
        mc1 == IF hit THEN st.mc ELSE (node_type :> method) @@ st.mc
    IN  Invoke(method, n, v, [st EXCEPT !.mc = mc1, !.log = Append(st.log, n)])

----------------------------------------------------------------------------
(* The state machine: one interpreter instance and its caller.             *)
(*   pc            "new" after construction, "called" while evaluate runs, *)
(*                 "returned"/"raised" when it ended, "idle" between calls *)
(*   node, value   the arguments of the current (or last) evaluate call    *)
(*   result        [exc, val]: what the call returned or raised            *)
(*   method_cache  self._method_cache                                      *)
(*   visited       the nodes visited by the current call, in order         *)
(*   dispatched    the function library calls of the current call          *)
(*   threads       the evaluations that share the interpreter step by step *)
(*                 (used by SpecThreads only, empty otherwise)             *)
(*   writes        how often each node type was stored in the cache        *)
(*                 (counted by SpecThreads only)                           *)
(*   heap          the lists and dicts of the process as objects with an   *)
(*                 identity (used by SpecHeap only, empty otherwise)       *)

NoResult == [exc |-> "", val |-> PyNone]

\* Nobody is asking for recommendations
NoRequest == [pc |-> "idle", user |-> "", lat |-> 0, lon |-> 0, items |-> <<>>, calls |-> <<>>]

\* Visitor.__init__: self._method_cache = {}
Init ==
    /\ pc = "new"
    /\ node = Node("identity", PyNone, <<>>)
    /\ value = PyNone
    /\ result = NoResult
    /\ method_cache = <<>>
    /\ visited = <<>>
    /\ dispatched = <<>>
    /\ threads = <<>>
    /\ writes = <<>>
    /\ heap = <<>>
    /\ businessDF = <<>>
    /\ fact_reco_model = <<>>
    /\ request = NoRequest

\* The caller hands a tree and a document to the interpreter
Call(t, d) ==
    /\ pc \in {"new", "idle"}
    /\ pc' = "called"
    /\ node' = t
    /\ value' = d
    /\ result' = NoResult
    /\ visited' = <<>>
    /\ dispatched' = <<>>
    /\ UNCHANGED <<method_cache, threads, writes, heap, reco_engine>>

\* An evaluation that visits its node again and again without consuming
\* a child or an element, and so never ends
Evaluate_revisiting ==
    /\ pc = "called"
    /\ visited' = IF visited = <<>> THEN <<node>> ELSE <<>>
    /\ UNCHANGED <<pc, node, value, result, method_cache, dispatched, threads, writes, heap, reco_engine>>

\* interpreter.visit(tree, document), run to its end
Evaluate ==
    /\ pc = "called"
    /\ LET r == visit(node, value, [mc |-> method_cache, log |-> <<>>, calls |-> <<>>])
       IN  /\ result' = [exc |-> r.exc, val |-> r.val]
           /\ method_cache' = r.st.mc
           /\ visited' = r.st.log
           /\ dispatched' = r.st.calls
           /\ pc' = IF r.exc = "" THEN "returned" ELSE "raised"
    /\ UNCHANGED <<node, value, threads, writes, heap, reco_engine>>

\* The caller takes the outcome; the interpreter and the tree stay in use
Finish ==
    /\ pc \in {"returned", "raised"}
    /\ pc' = "idle"
    /\ value' = PyNone
    /\ result' = NoResult
    /\ visited' = <<>>
    /\ dispatched' = <<>>
    /\ UNCHANGED <<node, method_cache, threads, writes, heap, reco_engine>>

\* A compiled expression is evaluated against one document after another:
\* the first call fixes the tree, later calls bring a new document
Search(trees, docs) ==
    \/ /\ pc = "new"
       /\ \E t \in trees, d \in docs : Call(t, d)
    \/ /\ pc = "idle"
       /\ \E d \in docs : Call(node, d)

----------------------------------------------------------------------------
(* Bounded inputs *)

MaxInt == 2

MaxLen == 2

Ints == {PyInt(i) : i \in 0..MaxInt}

Floats == {PyFloat(i) : i \in 0..1}

Scalars == {PyNone, PyFalse, PyTrue, PyStr(""), PyStr("a")} \cup Ints \cup Floats

\* Sequences over S of length at most len
SeqsUpTo(S, len) == UNION {[1..m -> S] : m \in 0..len}

Identity == Node("identity", PyNone, <<>>)

Current == Node("current", PyNone, <<>>)

Field(name) == Node("field", PyStr(name), <<>>)

Index(i) == Node("index", PyInt(i), <<>>)

Literal(v) == Node("literal", v, <<>>)

Comparator(op, l, r) == Node("comparator", PyStr(op), <<l, r>>)

OrExpression(l, r) == Node("or_expression", PyNone, <<l, r>>)

Projection(l, r) == Node("projection", PyNone, <<l, r>>)

Flatten(c) == Node("flatten", PyNone, <<c>>)

MultiSelectList(children) == Node("multi_select_list", PyNone, children)

MultiSelectDict(children) == Node("multi_select_dict", PyNone, children)

KeyValPair(key, c) == Node("key_val_pair", PyStr(key), <<c>>)

FilterProjection(l, proj, pred) == Node("filter_projection", PyNone, <<l, proj, pred>>)

ValueProjection(l, r) == Node("value_projection", PyNone, <<l, r>>)

SubExpression(children) == Node("sub_expression", PyNone, children)

IndexExpression(children) == Node("index_expression", PyNone, children)

Pipe(children) == Node("pipe", PyNone, children)

FunctionExpression(name, children) == Node("function_expression", PyStr(name), children)

Expref(c) == Node("expref", PyNone, <<c>>)

\* What evaluating node n against v on a fresh interpreter gives
Outcome(n, v) == visit(n, v, [mc |-> <<>>, log |-> <<>>, calls |-> <<>>])

\* The evaluate call on a node of this type has ended
Ended(type) == pc \in {"returned", "raised"} /\ node.type = type

----------------------------------------------------------------------------
(* Comparators applied to two literals *)

CmpVals ==
    Scalars
    \cup {PyList(xs) : xs \in SeqsUpTo({PyTrue, PyInt(1), PyInt(2), PyStr("a")}, MaxLen)}
    \cup {PyDict(<<>>, <<>>)}
    \cup {PyDict(<<"a">>, <<x>>) : x \in {PyTrue, PyInt(1), PyFalse, PyInt(0), PyNone}}
    \cup {PyList(<<PyList(<<x>>)>>) : x \in {PyTrue, PyInt(1)}}

CmpTrees == {Comparator(op, Literal(x), Literal(y)) :
                op \in {"eq", "ne"}, x \in CmpVals, y \in CmpVals}

NextComparator == Search(CmpTrees, {PyNone, PyInt(1)}) \/ Evaluate \/ Finish

SpecComparator == Init /\ [][NextComparator]_vars

\* The kind of a JSON value
JsonKind(x) ==
    CASE x.k = "NoneType" -> "null"
      [] x.k = "bool" -> "boolean"
      [] x.k \in {"int", "float"} -> "number"
      [] x.k = "str" -> "string"
      [] x.k = "list" -> "list"
      [] x.k = "dict" -> "map"

RECURSIVE JsonEq(_, _)
\* Deep equality over (value, kind) pairs
JsonEq(x, y) ==
    /\ JsonKind(x) = JsonKind(y)
    /\ CASE x.k \in {"bool", "int", "float"} -> x.n = y.n
         [] x.k = "str" -> x.s = y.s
         [] x.k = "list" ->
              /\ Len(x.items) = Len(y.items)
              /\ \A i \in 1..Len(x.items) : JsonEq(x.items[i], y.items[i])
         [] x.k = "dict" ->
              /\ {x.keys[i] : i \in 1..Len(x.keys)} = {y.keys[i] : i \in 1..Len(y.keys)}
              /\ \A i \in 1..Len(x.keys) : JsonEq(x.items[i], DictGet(y, x.keys[i]))
         [] OTHER -> TRUE

\* The evaluate call that just returned applied comparator op to two literals
ComparedLiterals(op) ==
    /\ pc = "returned"
    /\ node.type = "comparator"
    /\ node.value = PyStr(op)
    /\ node.children[1].type = "literal"
    /\ node.children[2].type = "literal"

\* C2: eq(x, y) is true iff x and y are the same JSON value under deep
\* equality over (value, kind) pairs, boolean and number being different
\* kinds, in lists and maps too.
C2_EqIsTypeAwareDeepEquality ==
    ComparedLiterals("eq") =>
        result.val = PyBool(JsonEq(node.children[1].value, node.children[2].value))

----------------------------------------------------------------------------
(* Leaf nodes applied to documents of every shape *)

Keys == {"a", "b"}

KeySeqs == {<<>>, <<"a">>, <<"b">>, <<"a", "b">>, <<"b", "a">>}

LeafElems == {PyNone, PyInt(1), PyStr("a"), PyList(<<PyInt(2)>>), PyDict(<<"a">>, <<PyInt(1)>>)}

LeafDocs ==
    Scalars \cup {PyStr("not-a-list")}
    \cup {PyList(xs) : xs \in SeqsUpTo(LeafElems, MaxLen + 1)}
    \cup UNION {{PyDict(ks, xs) : xs \in [1..Len(ks) -> LeafElems]} : ks \in KeySeqs}

LeafTrees ==
    {Identity, Current}
    \cup {Field(name) : name \in Keys \cup {"c"}}
    \cup {Index(i) : i \in -(MaxLen + 2)..(MaxLen + 2)}
    \cup {Literal(x) : x \in LeafElems}

NextLeaf == Search(LeafTrees, LeafDocs) \/ Evaluate \/ Finish

SpecLeaf == Init /\ [][NextLeaf]_vars

\* C7: field(k) on a map gives the value stored under k, or null when k is
\* absent; on any value that is not a map it gives null and does not fail.
C7_FieldLooksUpOrNull ==
    Ended("field") =>
        /\ pc = "returned"
        /\ \A i \in 1..Len(value.keys) :
              (value.k = "dict" /\ value.keys[i] = node.value.s) => result.val = value.items[i]
        /\ (value.k = "dict" /\ \A i \in 1..Len(value.keys) : value.keys[i] # node.value.s)
              => result.val = PyNone
        /\ value.k # "dict" => result.val = PyNone

C7_Witness ==
    /\ pc = "returned"
    /\ node = Field("a")
    /\ value = PyDict(<<"b", "a">>, <<PyInt(1), PyStr("a")>>)
    /\ result.val = PyStr("a")

\* C8: index(i) on a list of length n gives element i when 0 <= i < n,
\* element n+i when -n <= i < 0, and null for any other i; on any value that
\* is not a list (a string too) it gives null.
C8_IndexSelectsOrNull ==
    Ended("index") =>
        /\ pc = "returned"
        /\ LET i == node.value.n
               len == Len(value.items)
           IN  result.val =
                 IF value.k = "list" /\ 0 <= i /\ i < len THEN value.items[i + 1]
                 ELSE IF value.k = "list" /\ -len <= i /\ i < 0 THEN value.items[len + i + 1]
                 ELSE PyNone

C8_Witness ==
    /\ pc = "returned"
    /\ node = Index(-1)
    /\ value = PyList(<<PyInt(1), PyStr("a")>>)
    /\ result.val = PyStr("a")

----------------------------------------------------------------------------
(* or_expression *)

OrVals ==
    Scalars \cup {PyStr("fallback"), PyList(<<>>), PyDict(<<>>, <<>>),
                  PyList(<<PyNone>>), PyList(<<PyList(<<>>)>>), PyDict(<<"a">>, <<PyNone>>)}

OrLeaves == {Identity, Field("a"), Field("b"), Index(0)} \cup {Literal(x) : x \in OrVals}

OrTrees ==
    {OrExpression(l, r) : l \in OrLeaves, r \in OrLeaves}
    \cup {OrExpression(OrExpression(Field("a"), Field("b")), r) : r \in OrLeaves}
    \cup {OrExpression(l, OrExpression(Field("a"), Field("b"))) : l \in OrLeaves}

OrDocs ==
    {PyNone, PyInt(0), PyStr(""), PyList(<<>>), PyList(<<PyInt(0)>>), PyList(<<PyFalse>>)}
    \cup {PyDict(<<"a", "b">>, <<x, y>>) :
            x \in {PyNone, PyFalse, PyInt(0), PyStr(""), PyInt(1)},
            y \in {PyNone, PyInt(0), PyList(<<>>), PyStr("a")}}
    \cup {PyDict(<<"b">>, <<y>>) : y \in {PyFloat(0), PyDict(<<>>, <<>>)}}

NextOr == Search(OrTrees, OrDocs) \/ Evaluate \/ Finish

SpecOr == Init /\ [][NextOr]_vars

\* The values the language counts as false
Falsy == {PyStr(""), PyList(<<>>), PyDict(<<>>, <<>>), PyNone, PyFalse}

\* C3: or_expression gives the right child's result exactly when the left
\* child's result is "", [], {}, null or false, and the left child's result
\* otherwise; a left result of numeric zero is returned.
C3_OrReturnsRightIffLeftFalsy ==
    Ended("or_expression") =>
        /\ pc = "returned"
        /\ LET left == Outcome(node.children[1], value).val
               right == Outcome(node.children[2], value).val
           IN  result.val = IF left \in Falsy THEN right ELSE left

C3_Witness ==
    /\ pc = "returned"
    /\ node = OrExpression(Literal(PyInt(0)), Literal(PyStr("fallback")))
    /\ value = PyNone
    /\ result.val = PyInt(0)

----------------------------------------------------------------------------
(* projection *)

ProjElems ==
    {PyNone, PyInt(1), PyDict(<<"a">>, <<PyInt(1)>>), PyDict(<<"a">>, <<PyInt(2)>>),
     PyDict(<<"a", "b">>, <<PyNone, PyInt(2)>>), PyList(<<PyDict(<<"a">>, <<PyInt(3)>>)>>)}

ProjLists == {PyList(xs) : xs \in SeqsUpTo(ProjElems, MaxLen + 1)}

ProjDocs ==
    Scalars \cup ProjLists
    \cup {PyDict(<<"a">>, <<x>>) : x \in {PyInt(1), PyList(<<>>),
                                          PyList(<<PyInt(1), PyNone, PyInt(2)>>)}}

ProjLeft == {Identity, Field("a"), Literal(PyList(<<PyNone, PyInt(1)>>)), Literal(PyStr("a"))}

ProjRight ==
    {Identity, Field("a"), Field("b"), Index(0), Literal(PyNone), Literal(PyInt(1)),
     OrExpression(Field("a"), Field("b")), Projection(Identity, Field("a"))}

ProjTrees == {Projection(l, r) : l \in ProjLeft, r \in ProjRight}

NextProjection == Search(ProjTrees, ProjDocs) \/ Evaluate \/ Finish

SpecProjection == Init /\ [][NextProjection]_vars

NotNull(x) == x # PyNone

\* right evaluated on each element of base, in element order
Mapped(right, base) == [i \in 1..Len(base) |-> Outcome(right, base[i]).val]

\* C4: projection gives null when the left child's result is not a list;
\* otherwise the results of the right child on the elements, in element
\* order, with every null deleted: no null in the output, no more entries
\* than elements.
C4_ProjectionMapsAndDropsNull ==
    Ended("projection") =>
        /\ pc = "returned"
        /\ LET base == Outcome(node.children[1], value).val
           IN  IF base.k # "list" THEN result.val = PyNone
               ELSE /\ result.val =
                         PyList(SelectSeq(Mapped(node.children[2], base.items), NotNull))
                    /\ \A i \in 1..Len(result.val.items) : result.val.items[i] # PyNone
                    /\ Len(result.val.items) <= Len(base.items)

C4_Witness ==
    /\ pc = "returned"
    /\ node = Projection(Identity, Field("a"))
    /\ value = PyList(<<PyDict(<<"a">>, <<PyInt(2)>>), PyInt(1), PyDict(<<"a">>, <<PyInt(1)>>)>>)
    /\ result.val = PyList(<<PyInt(2), PyInt(1)>>)

----------------------------------------------------------------------------
(* flatten *)

FlatElems ==
    {PyNone, PyInt(4), PyList(<<>>), PyList(<<PyInt(3)>>), PyList(<<PyInt(1), PyInt(2)>>),
     PyList(<<PyList(<<PyInt(1)>>), PyInt(2)>>), PyDict(<<"a">>, <<PyList(<<PyInt(1)>>)>>)}

FlatLists == {PyList(xs) : xs \in SeqsUpTo(FlatElems, MaxLen + 1)}

FlatDocs ==
    Scalars \cup FlatLists
    \cup {PyDict(<<"a">>, <<x>>) : x \in {PyInt(1), PyList(<<PyList(<<PyInt(1)>>), PyInt(2)>>)}}

FlatTrees ==
    {Flatten(c) : c \in {Identity, Field("a"), Index(0), Flatten(Identity),
                         Literal(PyList(<<PyList(<<PyList(<<PyInt(1)>>)>>)>>)),
                         Literal(PyStr("a"))}}

NextFlatten == Search(FlatTrees, FlatDocs) \/ Evaluate \/ Finish

SpecFlatten == Init /\ [][NextFlatten]_vars

\* What an element contributes to the flattened list
Part(x) == IF x.k = "list" THEN x.items ELSE <<x>>

RECURSIVE Spliced(_)
Spliced(base) == IF base = <<>> THEN <<>> ELSE Part(Head(base)) \o Spliced(Tail(base))

RECURSIVE SumOfLengths(_)
SumOfLengths(base) ==
    IF base = <<>> THEN 0 ELSE Len(Part(Head(base))) + SumOfLengths(Tail(base))

\* C6: flatten gives null when the child's result is not a list; otherwise a
\* list in which each element that is a list is replaced by its own elements
\* (one level only) and every other element is kept in place, so its length
\* is the sum over the elements of (length if list else 1).
C6_FlattenSplicesOneLevel ==
    Ended("flatten") =>
        /\ pc = "returned"
        /\ LET base == Outcome(node.children[1], value).val
           IN  IF base.k # "list" THEN result.val = PyNone
               ELSE /\ result.val = PyList(Spliced(base.items))
                    /\ Len(result.val.items) = SumOfLengths(base.items)

C6_Witness ==
    /\ pc = "returned"
    /\ node = Flatten(Identity)
    /\ value = PyList(<<PyList(<<PyInt(1), PyInt(2)>>), PyList(<<PyInt(3)>>), PyInt(4)>>)
    /\ result.val = PyList(<<PyInt(1), PyInt(2), PyInt(3), PyInt(4)>>)

----------------------------------------------------------------------------
(* multi_select_list and multi_select_dict *)

SelectLeaves == {Identity, Field("a"), Field("b"), Index(0), Literal(PyNone)}

SelectDocs ==
    {PyNone, PyFalse, PyInt(0), PyStr(""), PyList(<<>>), PyList(<<PyNone, PyInt(1)>>),
     PyDict(<<>>, <<>>)}
    \cup {PyDict(<<"a">>, <<x>>) : x \in {PyNone, PyInt(1)}}
    \cup {PyDict(<<"a", "b">>, <<x, y>>) : x \in {PyNone, PyInt(1)}, y \in {PyInt(2), PyList(<<>>)}}

MultiSelectListTrees ==
    {MultiSelectList(cs) : cs \in SeqsUpTo(SelectLeaves, MaxLen + 1)}

NextMultiSelectList == Search(MultiSelectListTrees, SelectDocs) \/ Evaluate \/ Finish

SpecMultiSelectList == Init /\ [][NextMultiSelectList]_vars

\* C9: multi_select_list on null gives null and evaluates no child; on any
\* other value it evaluates every child against that value and gives a list
\* with one entry per child in child order, null results kept as entries.
C9_MultiSelectListKeepsEveryChild ==
    Ended("multi_select_list") =>
        /\ pc = "returned"
        /\ IF value = PyNone
           THEN result.val = PyNone /\ visited = <<node>>
           ELSE /\ result.val.k = "list"
                /\ Len(result.val.items) = Len(node.children)
                /\ \A i \in 1..Len(node.children) :
                      result.val.items[i] = Outcome(node.children[i], value).val
                /\ visited = <<node>> \o node.children

C9_Witness ==
    /\ pc = "returned"
    /\ node = MultiSelectList(<<Field("a"), Field("b")>>)
    /\ value = PyDict(<<"a">>, <<PyInt(1)>>)
    /\ result.val = PyList(<<PyInt(1), PyNone>>)

KeyValPairs ==
    {KeyValPair(key, c) : key \in Keys, c \in {Identity, Field("a"), Field("b")}}

MultiSelectDictTrees ==
    {MultiSelectDict(cs) : cs \in SeqsUpTo(KeyValPairs, MaxLen + 1)}

NextMultiSelectDict == Search(MultiSelectDictTrees, SelectDocs) \/ Evaluate \/ Finish

SpecMultiSelectDict == Init /\ [][NextMultiSelectDict]_vars

\* The position of the last child carrying the key
LastWith(children, key) ==
    CHOOSE i \in 1..Len(children) :
        /\ children[i].value.s = key
        /\ \A j \in (i + 1)..Len(children) : children[j].value.s # key

\* C10: multi_select_dict on null gives null and evaluates no child; on any
\* other value it gives a map whose keys are exactly the keys carried by the
\* key_val_pair children, each mapped to the value of the last child with
\* that key, a key_val_pair having the value of its single child.
C10_MultiSelectDictLastKeyWins ==
    Ended("multi_select_dict") =>
        /\ pc = "returned"
        /\ IF value = PyNone
           THEN result.val = PyNone /\ visited = <<node>>
           ELSE /\ result.val.k = "dict"
                /\ Len(visited) = 1 + 2 * Len(node.children)
                /\ {result.val.keys[i] : i \in 1..Len(result.val.keys)}
                     = {node.children[i].value.s : i \in 1..Len(node.children)}
                /\ \A i, j \in 1..Len(result.val.keys) :
                      result.val.keys[i] = result.val.keys[j] => i = j
                /\ \A i \in 1..Len(result.val.keys) :
                      LET last == node.children[LastWith(node.children, result.val.keys[i])]
                      IN  /\ result.val.items[i] = Outcome(last.children[1], value).val
                          /\ Outcome(last, value).val = Outcome(last.children[1], value).val

C10_Witness ==
    /\ pc = "returned"
    /\ node = MultiSelectDict(<<KeyValPair("a", Field("a")), KeyValPair("b", Identity),
                                KeyValPair("a", Field("b"))>>)
    /\ value = PyDict(<<"a", "b">>, <<PyInt(1), PyInt(2)>>)
    /\ result.val = PyDict(<<"a", "b">>, <<PyInt(2), value>>)

----------------------------------------------------------------------------
(* filter_projection *)

FilterElems ==
    {PyInt(1), PyDict(<<"b">>, <<PyInt(1)>>),
     PyDict(<<"a", "b">>, <<PyInt(0), PyInt(1)>>), PyDict(<<"a">>, <<PyInt(1)>>),
     PyDict(<<"a">>, <<PyInt(2)>>), PyDict(<<"a">>, <<PyInt(3)>>),
     PyDict(<<"a", "b">>, <<PyStr(""), PyInt(2)>>)}

FilterLists == {PyList(xs) : xs \in SeqsUpTo(FilterElems, MaxLen + 1)}

FilterDocs == {PyNone, PyInt(1), PyStr("a"), PyDict(<<"a">>, <<PyList(<<PyInt(1)>>)>>)} \cup FilterLists

ComparatorPredicates ==
    {Comparator(op, Field("a"), Literal(PyInt(1))) : op \in ComparatorNames}

Predicates == ComparatorPredicates \cup {Field("a"), Field("b"), Literal(PyList(<<>>))}

FilterTrees ==
    {FilterProjection(l, proj, pred) :
        l \in {Identity, Field("a")}, proj \in {Field("a"), Field("b")}, pred \in Predicates}

NextFilter == Search(FilterTrees, FilterDocs) \/ Evaluate \/ Finish

SpecFilter == Init /\ [][NextFilter]_vars

RECURSIVE Kept(_, _)
\* The elements of base on which the predicate's result is not falsy
Kept(pred, base) ==
    IF base = <<>> THEN <<>>
    ELSE (IF Outcome(pred, Head(base)).val \in Falsy THEN <<>> ELSE <<Head(base)>>)
         \o Kept(pred, Tail(base))

\* The result the filter_projection rule gives for node n on value v
FilterRule(n, v) ==
    LET base == Outcome(n.children[1], v).val
    IN  IF base.k # "list" THEN PyNone
        ELSE PyList(SelectSeq(Mapped(n.children[2], Kept(n.children[3], base.items)), NotNull))

\* C5: filter_projection gives null when child 0's result is not a list;
\* otherwise the projection child (index 1) is evaluated on exactly the
\* elements on which the predicate child (index 2) is truthy, and the result
\* is the list of the non-null projected values in element order.
C5_FilterKeepsTruthyElements ==
    Ended("filter_projection") =>
        /\ pc = "returned"
        /\ result.val = FilterRule(node, value)

\* The same rule for predicates that are comparator nodes, whose results
\* are booleans
C5_FilterWithComparatorPredicate ==
    (Ended("filter_projection") /\ node.children[3].type = "comparator") =>
        /\ pc = "returned"
        /\ result.val = FilterRule(node, value)

C5_Example ==
    /\ pc = "returned"
    /\ node = FilterProjection(Identity, Field("a"), Comparator("gt", Field("a"), Literal(PyInt(1))))
    /\ value = PyList(<<PyDict(<<"a">>, <<PyInt(1)>>), PyDict(<<"a">>, <<PyInt(2)>>),
                        PyDict(<<"a">>, <<PyInt(3)>>)>>)
    /\ result.val = PyList(<<PyInt(2), PyInt(3)>>)

----------------------------------------------------------------------------
(* Navigation: trees of every node type except comparator, expref and      *)
(* function_expression, one and two levels deep, on documents of every     *)
(* JSON kind                                                               *)

NavLeaves ==
    {Identity, Current, Field("a"), Index(0), Index(-1),
     Literal(PyList(<<PyDict(<<"a">>, <<PyInt(1)>>), PyList(<<PyInt(2)>>)>>))}

\* The nodes with two children
Binary(l, r) ==
    {Projection(l, r), ValueProjection(l, r), OrExpression(l, r),
     SubExpression(<<l, r>>), IndexExpression(<<l, r>>), Pipe(<<l, r>>)}

NavLevel1 ==
    {Flatten(c) : c \in NavLeaves}
    \cup UNION {Binary(l, r) : l \in NavLeaves, r \in NavLeaves}
    \cup {FilterProjection(l, proj, pred) :
            l \in {Identity, Field("a")}, proj \in NavLeaves, pred \in NavLeaves}
    \cup {MultiSelectList(cs) : cs \in SeqsUpTo({Field("a"), Index(0), Current}, MaxLen)}
    \cup {MultiSelectDict(cs) :
            cs \in SeqsUpTo({KeyValPair("a", Index(0)), KeyValPair("b", Field("a")),
                             KeyValPair("a", Identity)}, MaxLen)}

\* One-level nodes used as children
NavInner ==
    {Flatten(Identity), Projection(Identity, Field("a")), ValueProjection(Identity, Index(0)),
     OrExpression(Field("a"), Index(0)), SubExpression(<<Field("a"), Field("a")>>),
     FilterProjection(Identity, Identity, Field("a")),
     MultiSelectList(<<Field("a"), Index(-1)>>),
     MultiSelectDict(<<KeyValPair("a", Index(0))>>)}

NavLevel2 ==
    {Flatten(c) : c \in NavInner}
    \cup UNION {Binary(l, r) : l \in NavInner, r \in {Identity, Field("a"), Index(0)} \cup NavInner}
    \cup UNION {Binary(l, r) : l \in {Identity, Field("a"), Index(0)}, r \in NavInner}
    \cup {FilterProjection(l, proj, pred) : l \in {Identity}, proj \in NavInner, pred \in NavInner}
    \cup {MultiSelectList(<<c, d>>) : c \in NavInner, d \in {Field("a")}}
    \cup {MultiSelectDict(<<KeyValPair("a", c)>>) : c \in NavInner}

NavTrees == NavLeaves \cup NavLevel1 \cup NavLevel2

NavElems == {PyNone, PyInt(1), PyList(<<PyStr("a")>>), PyDict(<<"a">>, <<PyList(<<PyInt(1)>>)>>)}

NavDocs ==
    Scalars \cup {PyStr("not-a-list")}
    \cup {PyList(xs) : xs \in SeqsUpTo(NavElems, MaxLen)}
    \cup UNION {{PyDict(ks, xs) : xs \in [1..Len(ks) -> NavElems]} : ks \in {<<>>, <<"a">>, <<"b", "a">>}}

Next == Search(NavTrees, NavDocs) \/ Evaluate \/ Finish

Spec == Init /\ [][Next]_vars

RECURSIVE IsJson(_)
\* null, boolean, number, string, list or map, all the way down
IsJson(x) ==
    /\ x.k \in {"NoneType", "bool", "int", "float", "str", "list", "dict"}
    /\ \A i \in 1..Len(x.items) : IsJson(x.items[i])

\* C1: on a tree of navigation nodes only (no function call, no unknown
\* tag) and any JSON document, evaluate returns a JSON value, possibly null,
\* and never ends in an error.
C1_NavigationIsTotal ==
    pc \in {"returned", "raised"} =>
        /\ pc = "returned"
        /\ result.exc = ""
        /\ IsJson(result.val)

C1_Witness ==
    /\ pc = "returned"
    /\ node = Pipe(<<Field("a"), ValueProjection(Identity, Index(0))>>)
    /\ value = PyStr("not-a-list")
    /\ result.val = PyNone

----------------------------------------------------------------------------
(* value_projection *)

ValueElems ==
    {PyNone, PyInt(1), PyDict(<<"a">>, <<PyInt(1)>>), PyDict(<<"a">>, <<PyInt(2)>>),
     PyList(<<PyDict(<<"a">>, <<PyInt(3)>>)>>)}

ValueKeySeqs == KeySeqs \cup {<<"b", "c", "a">>}

ValueDicts ==
    UNION {{PyDict(ks, xs) : xs \in [1..Len(ks) -> ValueElems]} : ks \in ValueKeySeqs}

ValueDocs ==
    Scalars \cup ValueDicts
    \cup {PyList(xs) : xs \in SeqsUpTo({PyInt(1), PyDict(<<"a">>, <<PyInt(1)>>)}, MaxLen)}

ValueLeft ==
    {Identity, Field("a"), Literal(PyDict(<<"b", "a">>, <<PyNone, PyInt(1)>>)),
     Literal(PyList(<<PyInt(1)>>)), Literal(PyStr("a"))}

ValueRight ==
    {Identity, Field("a"), Index(0), Literal(PyNone), Literal(PyInt(1)),
     ValueProjection(Identity, Identity)}

ValueTrees == {ValueProjection(l, r) : l \in ValueLeft, r \in ValueRight}

NextValueProjection == Search(ValueTrees, ValueDocs) \/ Evaluate \/ Finish

SpecValueProjection == Init /\ [][NextValueProjection]_vars

\* C11: value_projection gives null when the left child's result is not a
\* map (null, boolean, number, string or list); otherwise the right child is
\* evaluated on each value of the map in the map's iteration order and the
\* result is the list of the non-null results in that order.
C11_ValueProjectionMapsValues ==
    Ended("value_projection") =>
        /\ pc = "returned"
        /\ LET base == Outcome(node.children[1], value).val
           IN  IF base.k # "dict" THEN result.val = PyNone
               ELSE result.val =
                      PyList(SelectSeq(Mapped(node.children[2], base.items), NotNull))

C11_Witness ==
    /\ pc = "returned"
    /\ node = ValueProjection(Identity, Field("a"))
    /\ value = PyDict(<<"b", "c", "a">>,
                      <<PyDict(<<"a">>, <<PyInt(2)>>), PyInt(1), PyDict(<<"a">>, <<PyInt(1)>>)>>)
    /\ result.val = PyList(<<PyInt(2), PyInt(1)>>)

----------------------------------------------------------------------------
(* Nodes whose type has no visit_ method *)

Unknown(tag) == Node(tag, PyNone, <<>>)

UnknownTags == {"slice", "and_expression"}

UnknownDocs ==
    {PyNone, PyInt(1), PyStr("a"), PyList(<<>>), PyList(<<PyInt(1)>>),
     PyList(<<PyNone, PyDict(<<"a">>, <<PyInt(1)>>)>>),
     PyList(<<PyDict(<<"a">>, <<PyNone>>)>>),
     PyDict(<<"a">>, <<PyInt(1)>>), PyDict(<<"a">>, <<PyNone>>),
     PyDict(<<"a">>, <<PyList(<<PyInt(1)>>)>>), PyDict(<<>>, <<>>)}

UnknownUnder(u) ==
    {u,
     SubExpression(<<Field("a"), u>>), IndexExpression(<<Field("a"), u>>),
     Pipe(<<u, Field("a")>>),
     OrExpression(Field("a"), u), OrExpression(u, Field("a")),
     Projection(Identity, u), Projection(u, Identity),
     Projection(Identity, OrExpression(Field("a"), u)),
     ValueProjection(Identity, u),
     FilterProjection(Identity, Identity, u), FilterProjection(Identity, u, Field("a")),
     Flatten(u), MultiSelectList(<<Field("a"), u>>),
     MultiSelectDict(<<KeyValPair("a", Field("a")), KeyValPair("b", u)>>),
     Comparator("eq", u, Literal(PyInt(1))), Comparator("lt", Field("a"), u)}

UnknownTrees == UNION {UnknownUnder(Unknown(tag)) : tag \in UnknownTags}

NextUnknown == Search(UnknownTrees, UnknownDocs) \/ Evaluate \/ Finish

SpecUnknown == Init /\ [][NextUnknown]_vars

\* The log of a call reached a node whose type has no visit_ method
VisitsUnknown(log) == \E i \in 1..Len(log) : log[i].type \notin VisitMethods

\* What the call in progress is about to give, with the cache as it stands
Pending == visit(node, value, [mc |-> method_cache, log |-> <<>>, calls |-> <<>>])

----------------------------------------------------------------------------
(* Failures of the function library under the enclosing handlers *)

FailingCalls ==
    {FunctionExpression("x", <<>>),
     FunctionExpression("length", <<Identity>>),
     FunctionExpression("length", <<Field("a")>>),
     FunctionExpression("length", <<Identity, Identity>>)}

FailingUnder(f) ==
    {f,
     SubExpression(<<Field("a"), f>>), SubExpression(<<f, Field("a")>>),
     IndexExpression(<<f, Index(0)>>), Pipe(<<Field("a"), f>>),
     OrExpression(f, Literal(PyInt(1))), OrExpression(Field("a"), f),
     Projection(Identity, f), Projection(f, Identity),
     Projection(Identity, OrExpression(f, Literal(PyInt(1)))),
     FilterProjection(Identity, Identity, f), FilterProjection(Identity, f, Identity),
     ValueProjection(Identity, f), Flatten(f),
     MultiSelectList(<<Literal(PyInt(1)), f>>),
     MultiSelectDict(<<KeyValPair("a", f), KeyValPair("b", Identity)>>),
     Comparator("eq", f, Literal(PyInt(1))),
     FunctionExpression("length", <<f>>)}

FailingTrees == UNION {FailingUnder(f) : f \in FailingCalls}

FailingDocs ==
    {PyNone, PyInt(1), PyStr("a"), PyList(<<>>), PyList(<<PyStr("a"), PyInt(1)>>),
     PyList(<<PyStr("a")>>), PyList(<<PyList(<<PyInt(1)>>), PyNone>>),
     PyDict(<<"a">>, <<PyInt(1)>>), PyDict(<<"a">>, <<PyStr("a")>>),
     PyDict(<<"b", "a">>, <<PyStr("a"), PyList(<<PyInt(1)>>)>>),
     PyList(<<PyDict(<<"a">>, <<PyStr("a")>>), PyDict(<<"a">>, <<PyInt(1)>>)>>)}

NextFailing == Search(FailingTrees, FailingDocs) \/ Evaluate \/ Finish

SpecFailing == Init /\ [][NextFailing]_vars

\* The function library rejects this call
Fails(c) ==
    call_function(c.name, c.args, [mc |-> <<>>, log |-> <<>>, calls |-> <<>>]).exc
        = "FunctionError"

\* C13: when a call of the function library fails (unknown name, arity or
\* type mismatch), the evaluation ends raised with that FunctionError: the
\* failing call is the last thing the evaluation did, every call before it
\* succeeded, no node is visited after it and no enclosing handler answers
\* null, drops the element or goes on; nothing else makes these trees fail.
C13_FunctionErrorPropagates ==
    pc \in {"returned", "raised"} =>
        /\ (\E i \in 1..Len(dispatched) : Fails(dispatched[i])) =>
              /\ pc = "raised"
              /\ result.exc = "FunctionError"
              /\ Fails(dispatched[Len(dispatched)])
              /\ \A i \in 1..(Len(dispatched) - 1) : ~Fails(dispatched[i])
              /\ dispatched[Len(dispatched)].at = Len(visited)
        /\ pc = "raised" => \E i \in 1..Len(dispatched) : Fails(dispatched[i])

C13_Witness ==
    /\ pc = "raised"
    /\ node = Projection(Identity,
                         OrExpression(FunctionExpression("length", <<Identity>>),
                                      Literal(PyInt(1))))
    /\ value = PyList(<<PyStr("a"), PyInt(1)>>)
    /\ result.exc = "FunctionError"
    /\ Len(dispatched) = 2

----------------------------------------------------------------------------
(* ne against eq, over the literal pairs of SpecComparator *)

\* The same comparison with eq in place of the node's comparator
AsEq(n, v) == Outcome(Comparator("eq", n.children[1], n.children[2]), v)

\* C15: for all values x and y, ne(x, y) is the negation of eq(x, y) with
\* the same equality: ne(true, 1) is true and ne(1, 1) is false.
C15_NeIsNotEq ==
    ComparedLiterals("ne") =>
        /\ AsEq(node, value).exc = ""
        /\ result.val = PyBool(AsEq(node, value).val # PyTrue)
        /\ (node.children[1].value = PyTrue /\ node.children[2].value = PyInt(1))
              => result.val = PyTrue
        /\ (node.children[1].value = PyInt(1) /\ node.children[2].value = PyInt(1))
              => result.val = PyFalse

C15_Witness ==
    /\ ComparedLiterals("ne")
    /\ node.children[1].value = PyTrue
    /\ node.children[2].value = PyInt(1)
    /\ result.val = PyTrue

----------------------------------------------------------------------------
(* Comparators over operands taken from the document *)

OrdVals ==
    {PyNone, PyTrue, PyInt(1), PyInt(MaxInt), PyStr("a"), PyStr("b"),
     PyList(<<PyInt(1)>>), PyDict(<<>>, <<>>)}

OrdDocs ==
    {PyDict(<<"a", "b">>, <<x, y>>) : x \in OrdVals, y \in OrdVals}
    \cup {PyNone, PyInt(1), PyStr("a"), PyList(<<PyInt(1)>>)}

OrdLeaves == {Identity, Field("a"), Field("b"), Literal(PyInt(1))}

OrdTrees == {Comparator(op, l, r) : op \in ComparatorNames, l \in OrdLeaves, r \in OrdLeaves}

NextOrdering == Search(OrdTrees, OrdDocs) \/ Evaluate \/ Finish

SpecOrdering == Init /\ [][NextOrdering]_vars

\* The two operands of the comparator node of the call
Operand(i) == Outcome(node.children[i], value).val

\* C14: for lt, lte, gt and gte, comparing two operands of different kinds
\* (a number with a string, a map with a number, null with a number)
\* returns false and never ends in an error.
C14_OrderingOfIncompatibleKindsIsFalse ==
    (/\ Ended("comparator")
     /\ node.value.s \in {"lt", "lte", "gt", "gte"}
     /\ JsonKind(Operand(1)) # JsonKind(Operand(2)))
        => (pc = "returned" /\ result.val = PyFalse)

\* C16: a comparator node evaluates its two children on the same current
\* value, first child first, and returns the named comparator applied to
\* (first result, second result) in that order; the result is a boolean.
C16_ComparatorAppliesOpToBothChildren ==
    Ended("comparator") =>
        /\ pc = "returned"
        /\ visited = <<node, node.children[1], node.children[2]>>
        /\ result.val.k = "bool"
        /\ result.val = PyBool(COMPARATOR_FUNC(node.value.s, Operand(1), Operand(2)))
        /\ (Operand(1) = PyInt(1) /\ Operand(2) = PyInt(MaxInt)) =>
              result.val = PyBool(node.value.s \in {"le", "lt", "lte", "ne"})

C16_Witness ==
    /\ pc = "returned"
    /\ node = Comparator("gt", Field("a"), Field("b"))
    /\ value = PyDict(<<"a", "b">>, <<PyInt(MaxInt), PyInt(1)>>)
    /\ result.val = PyTrue

----------------------------------------------------------------------------
(* sub_expression, index_expression and pipe *)

MaxChain == 3

ChainTags == {"sub_expression", "index_expression", "pipe"}

ChainLeaves == {Field("a"), Field("b"), Index(0), Projection(Identity, Field("a"))}

ChainTrees ==
    {Node(tag, PyNone, cs) : tag \in ChainTags, cs \in SeqsUpTo(ChainLeaves, MaxChain)}

ChainDocs ==
    {PyNone, PyInt(1), PyList(<<>>),
     PyDict(<<"a">>, <<PyInt(1)>>),
     PyDict(<<"a", "b">>, <<PyDict(<<"b">>, <<PyInt(1)>>), PyInt(2)>>),
     PyDict(<<"b">>, <<PyDict(<<"a">>, <<PyList(<<PyInt(1)>>)>>)>>),
     PyDict(<<"a">>, <<PyList(<<PyDict(<<"b">>, <<PyInt(1)>>)>>)>>),
     PyDict(<<"a">>, <<PyDict(<<"a">>, <<PyDict(<<"a">>, <<PyInt(1)>>)>>)>>),
     PyList(<<PyDict(<<"a">>, <<PyInt(1)>>), PyDict(<<"a">>, <<PyInt(2)>>)>>),
     PyList(<<PyDict(<<"a">>, <<PyList(<<PyInt(2)>>)>>)>>),
     PyList(<<PyList(<<PyDict(<<"a">>, <<PyInt(1)>>)>>)>>)}

NextChain == Search(ChainTrees, ChainDocs) \/ Evaluate \/ Finish

SpecChain == Init /\ [][NextChain]_vars

RECURSIVE Chained(_, _, _)
\* Child i on v, child i + 1 on what child i gave, ..., the last child's output
Chained(children, i, v) ==
    IF i > Len(children) THEN v
    ELSE Chained(children, i + 1, Outcome(children[i], v).val)

\* C17: sub_expression, index_expression and pipe evaluate as the same
\* left-to-right chain: the first child on the current value, each later
\* child on the output of the one before, the last output returned; on the
\* same children and value the three tags give the same result.
C17_ChainsAreIdentical ==
    (pc \in {"returned", "raised"} /\ node.type \in ChainTags) =>
        /\ pc = "returned"
        /\ result.val = Chained(node.children, 1, value)
        /\ \A tag \in ChainTags :
              Outcome(Node(tag, PyNone, node.children), value).val = result.val

C17_Witness ==
    /\ pc = "returned"
    /\ node = Pipe(<<Field("a"), Index(0), Field("b")>>)
    /\ value = PyDict(<<"a">>, <<PyList(<<PyDict(<<"b">>, <<PyInt(1)>>)>>)>>)
    /\ result.val = PyInt(1)

----------------------------------------------------------------------------
(* function_expression and expref *)

LengthOfCurrent == FunctionExpression("length", <<Identity>>)

ExprefBodies == {Identity, Field("a"), LengthOfCurrent, Unknown("slice")}

FunctionArgs == {Identity, Field("a"), Field("b"), Literal(PyStr("a"))}

FunctionTrees ==
    {FunctionExpression("length", <<c>>) : c \in FunctionArgs}
    \cup {FunctionExpression("map", <<Expref(b), c>>) : b \in ExprefBodies, c \in FunctionArgs}
    \cup {FunctionExpression("length", <<Expref(b)>>) : b \in ExprefBodies}
    \cup {FunctionExpression("x", <<Identity, Expref(b), Field("a")>>) : b \in ExprefBodies}
    \cup {FunctionExpression("length", <<>>),
          FunctionExpression("length", <<LengthOfCurrent>>),
          FunctionExpression("length", <<Field("a"), LengthOfCurrent>>),
          FunctionExpression("length",
                             <<FunctionExpression("map", <<Expref(LengthOfCurrent), Identity>>)>>),
          FunctionExpression("map", <<Expref(Field("a")),
                                      FunctionExpression("map", <<Expref(Identity), Identity>>)>>)}
    \cup {Expref(b) : b \in ExprefBodies}

FunctionDocs ==
    {PyNone, PyInt(1), PyStr("a"), PyList(<<>>), PyList(<<PyInt(1)>>),
     PyList(<<PyStr("a"), PyList(<<PyInt(1)>>)>>),
     PyList(<<PyDict(<<"a">>, <<PyInt(1)>>), PyDict(<<"a">>, <<PyStr("a")>>)>>),
     PyDict(<<"a">>, <<PyStr("a")>>),
     PyDict(<<"a", "b">>, <<PyList(<<PyInt(1)>>), PyList(<<PyStr("a"), PyStr("b")>>)>>),
     PyDict(<<"b">>, <<PyList(<<PyDict(<<"a">>, <<PyStr("a")>>),
                                PyDict(<<"a">>, <<PyList(<<PyInt(1), PyInt(2)>>)>>)>>)>>)}

NextFunction == Search(FunctionTrees, FunctionDocs) \/ Evaluate \/ Finish

SpecFunction == Init /\ [][NextFunction]_vars

RECURSIVE ChildLogs(_, _, _)
\* The nodes visited while children i.. are evaluated on v, one after another
ChildLogs(children, i, v) ==
    IF i > Len(children) THEN <<>>
    ELSE Outcome(children[i], v).st.log \o ChildLogs(children, i + 1, v)

RECURSIVE ChildCalls(_, _, _)
\* The number of function library calls made while children i.. are evaluated
ChildCalls(children, i, v) ==
    IF i > Len(children) THEN 0
    ELSE Len(Outcome(children[i], v).st.calls) + ChildCalls(children, i + 1, v)

\* Every child of the node of the call evaluates without raising
ChildrenReturn == \A i \in 1..Len(node.children) : Outcome(node.children[i], value).exc = ""

\* Each child evaluated on the current value
ResolvedArgs == [i \in 1..Len(node.children) |-> Outcome(node.children[i], value).val]

\* The function library called on its own, outside any evaluation
Dispatch(name, args) == call_function(name, args, [mc |-> <<>>, log |-> <<>>, calls |-> <<>>])

\* C18: function_expression evaluates every child on the current value in
\* child order, then hands the function name and the list of results (one
\* per child, in order, an un-evaluated deferred expression where the child
\* is an expref) to the function library in exactly one call, and returns
\* what that call gives.
C18_FunctionExpressionDispatchesOnce ==
    (Ended("function_expression") /\ ChildrenReturn) =>
        LET before == ChildLogs(node.children, 1, value)
            own == ChildCalls(node.children, 1, value) + 1
            outcome == Dispatch(node.value.s, ResolvedArgs)
        IN  /\ Len(visited) >= 1 + Len(before)
            /\ SubSeq(visited, 1, 1 + Len(before)) = <<node>> \o before
            /\ Len(dispatched) = own - 1 + Len(outcome.st.calls)
            /\ dispatched[own].name = node.value.s
            /\ Len(dispatched[own].args) = Len(node.children)
            /\ \A i \in 1..Len(node.children) :
                  /\ dispatched[own].args[i] = ResolvedArgs[i]
                  /\ node.children[i].type = "expref" =>
                        dispatched[own].args[i] = PyExpression(node.children[i].children[1])
            /\ dispatched[own].at = 1 + Len(before)
            /\ result = [exc |-> outcome.exc, val |-> outcome.val]

C18_Witness ==
    /\ pc = "returned"
    /\ node = FunctionExpression("map", <<Expref(LengthOfCurrent), Field("b")>>)
    /\ value = PyDict(<<"a", "b">>, <<PyList(<<PyInt(1)>>), PyList(<<PyStr("a"), PyStr("b")>>)>>)
    /\ result.val = PyList(<<PyInt(1), PyInt(1)>>)
    /\ Len(dispatched) = 3

RECURSIVE ReEntries(_, _, _)
\* The nodes visited when a function evaluates body on elements i.. in turn
ReEntries(body, elements, i) ==
    IF i > Len(elements) THEN <<>>
    ELSE LET r == Outcome(body, elements[i])
         IN  IF r.exc # "" THEN r.st.log
             ELSE r.st.log \o ReEntries(body, elements, i + 1)

\* The children of the node of the call are exprefs and plain leaves
PlainArgs ==
    \A i \in 1..Len(node.children) :
        node.children[i].type \in {"expref", "identity", "field", "literal"}

\* C19: evaluating an expref node visits no node but the expref itself and
\* returns a deferred expression wrapping exactly its child, whatever the
\* current value is; as a function argument it is handed over un-evaluated,
\* and its child is visited only after the function call began, when the
\* function re-enters the evaluator with it (map does, once per element;
\* length and a failing call never do).
C19_ExprefDefersItsChild ==
    /\ Ended("expref") =>
          /\ pc = "returned"
          /\ result.val = PyExpression(node.children[1])
          /\ visited = <<node>>
          /\ dispatched = <<>>
    /\ (Ended("function_expression") /\ PlainArgs) =>
          LET n == Len(node.children)
              call == dispatched[1]
              entered == call.name = "map" /\ n = 2 /\ call.args[1].k = "_Expression"
                                           /\ call.args[2].k = "list"
          IN  /\ Len(dispatched) >= 1
              /\ call.at = 1 + n
              /\ SubSeq(visited, 1, 1 + n) = <<node>> \o node.children
              /\ \A i \in 1..n : node.children[i].type = "expref" =>
                    call.args[i] = PyExpression(node.children[i].children[1])
              /\ SubSeq(visited, 2 + n, Len(visited)) =
                    IF entered THEN ReEntries(node.children[1].children[1], call.args[2].items, 1)
                    ELSE <<>>

C19_Witness ==
    /\ pc = "returned"
    /\ node = FunctionExpression("map", <<Expref(Field("a")), Identity>>)
    /\ value = PyList(<<PyDict(<<"a">>, <<PyInt(1)>>), PyDict(<<"a">>, <<PyStr("a")>>)>>)
    /\ dispatched[1].args[1] = PyExpression(Field("a"))
    /\ visited = <<node, Expref(Field("a")), Identity, Field("a"), Field("a")>>
    /\ result.val = PyList(<<PyInt(1), PyStr("a")>>)

----------------------------------------------------------------------------
(* identity and current, over the documents of SpecLeaf *)

\* C20: for every document d, evaluating an identity node or a current
\* node against d returns d unchanged.
C20_IdentityAndCurrentReturnTheDocument ==
    (Ended("identity") \/ Ended("current")) =>
        /\ pc = "returned"
        /\ result.val = value
        /\ visited = <<node>>

C20_Witness ==
    /\ pc = "returned"
    /\ node = Current
    /\ value = PyInt(0)
    /\ result.val = PyInt(0)

----------------------------------------------------------------------------
(* or_expression with right sides that fail or call functions *)

ShortLeft ==
    {Identity, Field("a"), Literal(PyInt(0)), LengthOfCurrent,
     OrExpression(Field("a"), Field("b"))}

ShortRight ==
    {Unknown("slice"), FunctionExpression("x", <<>>), LengthOfCurrent, Field("b"),
     OrExpression(Field("b"), Unknown("slice"))}

ShortTrees == {OrExpression(l, r) : l \in ShortLeft, r \in ShortRight}

ShortDocs ==
    {PyNone, PyFalse, PyInt(0), PyStr(""), PyStr("a"), PyList(<<>>), PyList(<<PyInt(0)>>),
     PyDict(<<>>, <<>>)}
    \cup {PyDict(<<"a", "b">>, <<x, y>>) :
            x \in {PyNone, PyFalse, PyInt(0), PyStr(""), PyList(<<>>), PyInt(1)},
            y \in {PyNone, PyInt(0), PyStr("a")}}

NextShort == Search(ShortTrees, ShortDocs) \/ Evaluate \/ Finish

SpecShort == Init /\ [][NextShort]_vars

\* C21: or_expression short-circuits. When the left child's result is not
\* falsy, the visit log is the node and the left child's visits only: the
\* right child is never visited, so no error or function call of the right
\* child happens and the left result is returned. The right child is
\* visited only after the left child completed with a falsy result.
C21_OrShortCircuits ==
    Ended("or_expression") =>
        LET left == Outcome(node.children[1], value)
            right == Outcome(node.children[2], value)
        IN  IF left.exc # ""
            THEN /\ pc = "raised"
                 /\ visited = <<node>> \o left.st.log
            ELSE IF left.val \notin Falsy
            THEN /\ pc = "returned"
                 /\ result.val = left.val
                 /\ visited = <<node>> \o left.st.log
                 /\ Len(dispatched) = Len(left.st.calls)
            ELSE /\ visited = <<node>> \o left.st.log \o right.st.log
                 /\ Len(dispatched) = Len(left.st.calls) + Len(right.st.calls)
                 /\ result = [exc |-> right.exc, val |-> right.val]

C21_Witness ==
    /\ pc = "returned"
    /\ node = OrExpression(Field("a"), Unknown("slice"))
    /\ value = PyDict(<<"a", "b">>, <<PyInt(0), PyNone>>)
    /\ result.val = PyInt(0)
    /\ visited = <<node, Field("a")>>

----------------------------------------------------------------------------
(* Evaluations sharing one interpreter and one tree, step by step.         *)
(* Each thread runs interpreter.visit(tree, document); every visit of it   *)
(* takes the steps of Visitor.visit one at a time (cache lookup, getattr,  *)
(* cache store, method call), and the steps of the threads interleave.     *)
(* A thread's record:                                                      *)
(*   pc      "idle", "lookup", "resolve", "insert", "invoke" or "done"     *)
(*   value   its document                                                  *)
(*   work    the nodes its evaluation visits, in order                     *)
(*   pos     the visit it is at                                            *)
(*   method  the local variable method of the visit it is at               *)
(*   result  [exc, val] once it is done                                    *)

Threads == {"A", "B"}

\* A lookup that answers with whatever entry the cache holds
cache_get_any_key(mc, node_type) ==
    IF DOMAIN mc = {} THEN "None" ELSE mc[CHOOSE k \in DOMAIN mc : TRUE]

\* self._method_cache.get(node_type)
cache_get(mc, node_type) ==
    IF node_type \in DOMAIN mc THEN mc[node_type] ELSE "None"

\* A cache that holds the last stored entry only
cache_set_single_entry(mc, node_type, method) == node_type :> method

\* self._method_cache[node_type] = method
cache_set(mc, node_type, method) == (node_type :> method) @@ mc

IdleThread ==
    [pc |-> "idle", value |-> PyNone, work |-> <<>>, pos |-> 0, method |-> "None",
     result |-> NoResult]

ThreadTrees ==
    {Identity, Unknown("slice"),
     OrExpression(Field("a"), Unknown("slice")),
     SubExpression(<<Field("a"), Field("b")>>),
     Projection(Identity, Field("a")),
     MultiSelectList(<<Field("a"), Index(0)>>),
     Pipe(<<Field("a"), Unknown("slice")>>)}

ThreadDocs ==
    {PyNone, PyDict(<<"a">>, <<PyDict(<<"b">>, <<PyInt(1)>>)>>),
     PyList(<<PyDict(<<"a">>, <<PyInt(1)>>), PyDict(<<"a">>, <<PyInt(2)>>)>>)}

\* One interpreter, one compiled tree, nobody evaluating yet
InitThreads ==
    /\ pc = "new"
    /\ node \in ThreadTrees
    /\ value = PyNone
    /\ result = NoResult
    /\ method_cache = <<>>
    /\ visited = <<>>
    /\ dispatched = <<>>
    /\ threads = [t \in Threads |-> IdleThread]
    /\ writes = <<>>
    /\ heap = <<>>
    /\ businessDF = <<>>
    /\ fact_reco_model = <<>>
    /\ request = NoRequest

\* How often the cache entry of this node type was stored
WriteCount(tag) == IF tag \in DOMAIN writes THEN writes[tag] ELSE 0

\* The node type of the visit thread t is at
NodeType(t) == threads[t].work[threads[t].pos].type

\* A thread calls interpreter.visit(tree, d)
Begin(t) ==
    /\ threads[t].pc = "idle"
    /\ \E d \in ThreadDocs :
          threads' = [threads EXCEPT ![t] =
                         [pc |-> "lookup", value |-> d, work |-> Outcome(node, d).st.log,
                          pos |-> 1, method |-> "None", result |-> NoResult]]
    /\ UNCHANGED <<pc, node, value, result, method_cache, visited, dispatched, writes, heap, reco_engine>>

\* method = self._method_cache.get(node_type)
Lookup(t) ==
    /\ threads[t].pc = "lookup"
    /\ LET method == cache_get(method_cache, NodeType(t))
       IN  threads' = [threads EXCEPT ![t].method = method,
                                      ![t].pc = IF method = "None" THEN "resolve" ELSE "invoke"]
    /\ UNCHANGED <<pc, node, value, result, method_cache, visited, dispatched, writes, heap, reco_engine>>

\* method = getattr(self, 'visit_%s' % node['type'], self.default_visit)
Resolve(t) ==
    /\ threads[t].pc = "resolve"
    /\ threads' = [threads EXCEPT ![t].method = getattr_visit(NodeType(t)),
                                  ![t].pc = "insert"]
    /\ UNCHANGED <<pc, node, value, result, method_cache, visited, dispatched, writes, heap, reco_engine>>

\* self._method_cache[node_type] = method
Insert(t) ==
    /\ threads[t].pc = "insert"
    /\ method_cache' = cache_set(method_cache, NodeType(t), threads[t].method)
    /\ writes' = (NodeType(t) :> (WriteCount(NodeType(t)) + 1)) @@ writes
    /\ threads' = [threads EXCEPT ![t].pc = "invoke"]
    /\ UNCHANGED <<pc, node, value, result, visited, dispatched, heap, reco_engine>>

\* return method(node, *args, **kwargs): the method runs up to its next
\* self.visit, or the evaluation ends
CallMethod(t) ==
    /\ threads[t].pc = "invoke"
    /\ threads' =
          IF threads[t].method # getattr_visit(NodeType(t))
          THEN [threads EXCEPT ![t].pc = "done",
                               ![t].result = [exc |-> "WrongMethod", val |-> PyNone]]
          ELSE IF threads[t].pos < Len(threads[t].work)
          THEN [threads EXCEPT ![t].pc = "lookup", ![t].pos = @ + 1, ![t].method = "None"]
          ELSE LET r == Outcome(node, threads[t].value)
               IN  [threads EXCEPT ![t].pc = "done",
                                   ![t].result = [exc |-> r.exc, val |-> r.val]]
    /\ UNCHANGED <<pc, node, value, result, method_cache, visited, dispatched, writes, heap, reco_engine>>

\* The thread's caller takes the outcome
TakeResult(t) ==
    /\ threads[t].pc = "done"
    /\ threads' = [threads EXCEPT ![t] = IdleThread]
    /\ UNCHANGED <<pc, node, value, result, method_cache, visited, dispatched, writes, heap, reco_engine>>

NextThreads ==
    \E t \in Threads :
        Begin(t) \/ Lookup(t) \/ Resolve(t) \/ Insert(t) \/ CallMethod(t) \/ TakeResult(t)

SpecThreads == InitThreads /\ [][NextThreads]_vars

\* An entry of the cache stays, with the method it has
EntriesKept ==
    \A tag \in DOMAIN method_cache :
        tag \in DOMAIN method_cache' /\ method_cache'[tag] = method_cache[tag]

\* C22 as stated: across any sequence or interleaving of evaluate calls on
\* one interpreter, two of them meeting a not yet cached tag included, the
\* cache is written at most once per tag and an entry is never overwritten
\* or removed.
C22_CacheWrittenOncePerTag ==
    /\ [](\A tag \in DOMAIN writes : writes[tag] <= 1)
    /\ [][EntriesKept]_vars

\* C22 amended: a tag is stored once by each evaluation that looked it up
\* before any store of it, so at most once per concurrent evaluation and
\* possibly more than once in all; every store of a tag stores the method
\* that getattr resolves for it, so an entry never changes its method and
\* is never removed.
C22_CacheWritesAreIdempotent ==
    /\ [](\A tag \in DOMAIN writes :
             /\ writes[tag] <= Cardinality(Threads)
             /\ cache_get(method_cache, tag) = getattr_visit(tag))
    /\ [](DOMAIN method_cache = DOMAIN writes)
    /\ [][EntriesKept]_vars

C22_Witness ==
    /\ node = Pipe(<<Field("a"), Unknown("slice")>>)
    /\ WriteCount("field") = 2
    /\ WriteCount("slice") = 2
    /\ method_cache["slice"] = "default_visit"
    /\ method_cache["field"] = "field"

\* C23: when two evaluations share one interpreter and one tree and their
\* steps (cache lookup, tag resolution, cache insert, method call)
\* interleave in any way, each evaluation ends with the value or error it
\* gives when run alone, and no visit calls the method of another tag.
C23_InterleavedEvaluationsAgree ==
    \A t \in DOMAIN threads :
        /\ threads[t].pc = "invoke" => threads[t].method = getattr_visit(NodeType(t))
        /\ threads[t].pc = "done" =>
              LET alone == Outcome(node, threads[t].value)
              IN  threads[t].result = [exc |-> alone.exc, val |-> alone.val]

C23_Witness ==
    /\ node = OrExpression(Field("a"), Unknown("slice"))
    /\ WriteCount("or_expression") = 2
    /\ WriteCount("field") = 2
    /\ threads["A"].pc = "done"
    /\ threads["B"].pc = "done"
    /\ threads["A"].result = [exc |-> "", val |-> PyDict(<<"b">>, <<PyInt(1)>>)]
    /\ threads["B"].result = [exc |-> "NotImplementedError", val |-> PyNone]

----------------------------------------------------------------------------
(* The cache as a memoization, over the calls of SpecUnknown *)

\* C24: the cache is a pure memoization. In every reachable state each
\* entry for a node type is the method that getattr resolves for it
\* (default_visit for a type without a method), and a call gives the same
\* value or error with the cache earlier calls left as it gives on a new
\* interpreter.
C24_CacheIsPureMemoization ==
    /\ \A tag \in DOMAIN method_cache : method_cache[tag] = getattr_visit(tag)
    /\ pc = "called" =>
          /\ Pending.exc = Outcome(node, value).exc
          /\ Pending.val = Outcome(node, value).val
    /\ pc \in {"returned", "raised"} =>
          result = [exc |-> Outcome(node, value).exc, val |-> Outcome(node, value).val]

C24_Witness ==
    /\ pc = "returned"
    /\ node = OrExpression(Field("a"), Unknown("slice"))
    /\ value = PyDict(<<"a">>, <<PyInt(1)>>)
    /\ result.val = PyInt(1)
    /\ visited = <<node, Field("a")>>
    /\ "slice" \in DOMAIN method_cache
    /\ method_cache["slice"] = "default_visit"

----------------------------------------------------------------------------
(* The interpreter over objects with an identity.                          *)
(* A list or dict is an object of the heap, objs[id]; a value that is a    *)
(* list or dict is a reference Ref(id) to it, and the items of an object   *)
(* are scalars and references. Here collected = [] creates an object and   *)
(* append, extend and item assignment change the object they are called    *)
(* on, so that what a handler does to the lists and dicts of the document  *)
(* and of the tree shows in objs. st is [mc, objs].                        *)

Ref(id) == [k |-> "ref", n |-> id, s |-> "", items |-> <<>>, keys |-> <<>>]

\* type(x).__name__ for a scalar or a referenced object
KindOf(x, objs) == IF x.k = "ref" THEN objs[x.n].k ELSE x.k

\* [] or {}: a new object, whose id is the new length of objs
New(kind, objs) ==
    Append(objs, [k |-> kind, n |-> 0, s |-> "", items |-> <<>>, keys |-> <<>>])

\* obj.append(x)
list_append(objs, id, x) == [objs EXCEPT ![id].items = Append(@, x)]

\* obj.extend(xs)
list_extend(objs, id, xs) == [objs EXCEPT ![id].items = @ \o xs]

\* obj[key] = x
dict_setitem(objs, id, key, x) ==
    LET d == DictSet(objs[id], key, x)
    IN  [objs EXCEPT ![id].keys = d.keys, ![id].items = d.items]

RECURSIVE Load(_, _), LoadItems(_, _, _, _)
\* The document (or a literal) as objects: [val, objs]
Load(v, objs) ==
    IF v.k \notin {"list", "dict"} THEN [val |-> v, objs |-> objs]
    ELSE LET inner == LoadItems(v.items, 1, <<>>, objs)
             obj == [k |-> v.k, n |-> 0, s |-> "", items |-> inner.val, keys |-> v.keys]
         IN  [val |-> Ref(Len(inner.objs) + 1), objs |-> Append(inner.objs, obj)]

LoadItems(xs, i, acc, objs) ==
    IF i > Len(xs) THEN [val |-> acc, objs |-> objs]
    ELSE LET x == Load(xs[i], objs)
         IN  LoadItems(xs, i + 1, Append(acc, x.val), x.objs)

RECURSIVE LoadTree(_, _), LoadChildren(_, _, _, _)
\* The tree with the lists and dicts of its literals as objects: [val, objs]
LoadTree(n, objs) ==
    LET v == Load(n.value, objs)
        cs == LoadChildren(n.children, 1, <<>>, v.objs)
    IN  [val |-> Node(n.type, v.val, cs.val), objs |-> cs.objs]

LoadChildren(children, i, acc, objs) ==
    IF i > Len(children) THEN [val |-> acc, objs |-> objs]
    ELSE LET c == LoadTree(children[i], objs)
         IN  LoadChildren(children, i + 1, Append(acc, c.val), c.objs)

\* The document, then the tree, in a heap that held nothing
Loaded(t, d) ==
    LET doc == Load(d, <<>>)
        tree == LoadTree(t, doc.objs)
    IN  [doc |-> doc.val, tree |-> tree.val, objs |-> tree.objs]

RECURSIVE Decode(_, _)
\* The value a scalar or reference stands for, read through the heap
Decode(x, objs) ==
    IF x.k # "ref" THEN x
    ELSE LET obj == objs[x.n]
         IN  [k |-> obj.k, n |-> 0, s |-> "",
              items |-> [i \in 1..Len(obj.items) |-> Decode(obj.items[i], objs)],
              keys |-> obj.keys]

RECURSIVE visit_heap(_, _, _), Invoke_heap(_, _, _, _), ChainLoop_heap(_, _, _, _)
RECURSIVE FilterLoop_heap(_, _, _, _, _), FlattenLoop_heap(_, _, _, _)
RECURSIVE DictLoop_heap(_, _, _, _, _), ListLoop_heap(_, _, _, _, _)
RECURSIVE ProjectLoop_heap(_, _, _, _, _)

\* result = value; for node in children: result = self.visit(node, result)
ChainLoop_heap(children, i, res, st) ==
    IF i > Len(children) THEN Return(res, st)
    ELSE LET r == visit_heap(children[i], res, st)
         IN  IF r.exc # "" THEN r ELSE ChainLoop_heap(children, i + 1, r.val, r.st)

\* value.get(node['value']), None on AttributeError
visit_field_heap(n, v, st) ==
    IF KindOf(v, st.objs) = "dict" THEN Return(DictGet(st.objs[v.n], n.value.s), st)
    ELSE Return(PyNone, st)

visit_comparator_heap(n, v, st) ==
    IF n.value.s \notin ComparatorNames THEN Raise("KeyError", st)
    ELSE LET a == visit_heap(n.children[1], v, st)
         IN  IF a.exc # "" THEN a
             ELSE LET b == visit_heap(n.children[2], v, a.st)
                  IN  IF b.exc # "" THEN b
                      ELSE Return(PyBool(COMPARATOR_FUNC(n.value.s,
                                                         Decode(a.val, b.st.objs),
                                                         Decode(b.val, b.st.objs))), b.st)

\* collected = []; for element in base: if visit(comparator_node, element): ...
FilterLoop_heap(n, base, i, collected, st) ==
    IF i > Len(base) THEN Return(Ref(collected), st)
    ELSE LET c == visit_heap(n.children[3], base[i], st)
         IN  IF c.exc # "" THEN c
             ELSE IF ~PyTruthy(Decode(c.val, c.st.objs))
             THEN FilterLoop_heap(n, base, i + 1, collected, c.st)
             ELSE LET current == visit_heap(n.children[2], base[i], c.st)
                  IN  IF current.exc # "" THEN current
                      ELSE FilterLoop_heap(n, base, i + 1, collected,
                               IF current.val.k # "NoneType"
                               THEN [current.st EXCEPT
                                        !.objs = list_append(@, collected, current.val)]
                               ELSE current.st)

visit_filter_projection_heap(n, v, st) ==
    LET base == visit_heap(n.children[1], v, st)
    IN  IF base.exc # "" THEN base
        ELSE IF KindOf(base.val, base.st.objs) # "list" THEN Return(PyNone, base.st)
        ELSE FilterLoop_heap(n, base.st.objs[base.val.n].items, 1, Len(base.st.objs) + 1,
                             [base.st EXCEPT !.objs = New("list", @)])

\* for element in base: merged_list.extend(element) or merged_list.append(element)
FlattenLoop_heap(base, i, merged_list, objs) ==
    IF i > Len(base) THEN objs
    ELSE FlattenLoop_heap(base, i + 1, merged_list,
             IF KindOf(base[i], objs) = "list"
             THEN list_extend(objs, merged_list, objs[base[i].n].items)
             ELSE list_append(objs, merged_list, base[i]))

\* A flatten that collects into the first nested list instead of a new list
visit_flatten_heap_in_place(n, v, st) ==
    LET base == visit_heap(n.children[1], v, st)
    IN  IF base.exc # "" THEN base
        ELSE IF KindOf(base.val, base.st.objs) # "list" THEN Return(PyNone, base.st)
        ELSE LET elements == base.st.objs[base.val.n].items
             IN  IF Len(elements) > 0 /\ KindOf(elements[1], base.st.objs) = "list"
                 THEN Return(elements[1],
                             [base.st EXCEPT !.objs =
                                 FlattenLoop_heap(elements, 2, elements[1].n, @)])
                 ELSE Return(Ref(Len(base.st.objs) + 1),
                             [base.st EXCEPT !.objs =
                                 FlattenLoop_heap(elements, 1, Len(@) + 1, New("list", @))])

visit_flatten_heap(n, v, st) ==
    LET base == visit_heap(n.children[1], v, st)
    IN  IF base.exc # "" THEN base
        ELSE IF KindOf(base.val, base.st.objs) # "list" THEN Return(PyNone, base.st)
        ELSE Return(Ref(Len(base.st.objs) + 1),
                    [base.st EXCEPT !.objs =
                        FlattenLoop_heap(base.st.objs[base.val.n].items, 1, Len(@) + 1,
                                         New("list", @))])

\* value[node['value']] on a list, None otherwise and on IndexError
visit_index_heap(n, v, st) ==
    IF KindOf(v, st.objs) # "list" THEN Return(PyNone, st)
    ELSE IF ListIndexInRange(st.objs[v.n].items, n.value.n)
    THEN Return(ListIndex(st.objs[v.n].items, n.value.n), st)
    ELSE Return(PyNone, st)

\* for child in children: collected[child['value']] = self.visit(child, value)
DictLoop_heap(children, i, v, collected, st) ==
    IF i > Len(children) THEN Return(Ref(collected), st)
    ELSE LET r == visit_heap(children[i], v, st)
         IN  IF r.exc # "" THEN r
             ELSE DictLoop_heap(children, i + 1, v, collected,
                      [r.st EXCEPT !.objs =
                          dict_setitem(@, collected, children[i].value.s, r.val)])

visit_multi_select_dict_heap(n, v, st) ==
    IF v.k = "NoneType" THEN Return(PyNone, st)
    ELSE DictLoop_heap(n.children, 1, v, Len(st.objs) + 1,
                       [st EXCEPT !.objs = New("dict", @)])

\* for child in children: collected.append(self.visit(child, value))
ListLoop_heap(children, i, v, collected, st) ==
    IF i > Len(children) THEN Return(Ref(collected), st)
    ELSE LET r == visit_heap(children[i], v, st)
         IN  IF r.exc # "" THEN r
             ELSE ListLoop_heap(children, i + 1, v, collected,
                      [r.st EXCEPT !.objs = list_append(@, collected, r.val)])

visit_multi_select_list_heap(n, v, st) ==
    IF v.k = "NoneType" THEN Return(PyNone, st)
    ELSE ListLoop_heap(n.children, 1, v, Len(st.objs) + 1,
                       [st EXCEPT !.objs = New("list", @)])

visit_or_expression_heap(n, v, st) ==
    LET matched == visit_heap(n.children[1], v, st)
    IN  IF matched.exc # "" THEN matched
        ELSE IF _is_false(Decode(matched.val, matched.st.objs))
        THEN visit_heap(n.children[2], v, matched.st)
        ELSE matched

\* for element in base: current = visit(children[1], element); append if not None
ProjectLoop_heap(n, base, i, collected, st) ==
    IF i > Len(base) THEN Return(Ref(collected), st)
    ELSE LET current == visit_heap(n.children[2], base[i], st)
         IN  IF current.exc # "" THEN current
             ELSE ProjectLoop_heap(n, base, i + 1, collected,
                      IF current.val.k # "NoneType"
                      THEN [current.st EXCEPT
                               !.objs = list_append(@, collected, current.val)]
                      ELSE current.st)

visit_projection_heap(n, v, st) ==
    LET base == visit_heap(n.children[1], v, st)
    IN  IF base.exc # "" THEN base
        ELSE IF KindOf(base.val, base.st.objs) # "list" THEN Return(PyNone, base.st)
        ELSE ProjectLoop_heap(n, base.st.objs[base.val.n].items, 1, Len(base.st.objs) + 1,
                              [base.st EXCEPT !.objs = New("list", @)])

\* base = base.values() is a new list of the dict's values; then as a projection
visit_value_projection_heap(n, v, st) ==
    LET base == visit_heap(n.children[1], v, st)
    IN  IF base.exc # "" THEN base
        ELSE IF KindOf(base.val, base.st.objs) # "dict" THEN Return(PyNone, base.st)
        ELSE LET vals == list_extend(New("list", base.st.objs), Len(base.st.objs) + 1,
                                     base.st.objs[base.val.n].items)
             IN  ProjectLoop_heap(n, base.st.objs[base.val.n].items, 1, Len(vals) + 1,
                                  [base.st EXCEPT !.objs = New("list", vals)])

\* return method(node, *args, **kwargs)
Invoke_heap(method, n, v, st) ==
    CASE method \in {"sub_expression", "index_expression", "pipe"} ->
             ChainLoop_heap(n.children, 1, v, st)
      [] method = "field" -> visit_field_heap(n, v, st)
      [] method = "comparator" -> visit_comparator_heap(n, v, st)
      [] method \in {"current", "identity"} -> Return(v, st)
      [] method = "filter_projection" -> visit_filter_projection_heap(n, v, st)
      [] method = "flatten" -> visit_flatten_heap(n, v, st)
      [] method = "index" -> visit_index_heap(n, v, st)
      [] method = "key_val_pair" -> visit_heap(n.children[1], v, st)
      [] method = "literal" -> Return(n.value, st)
      [] method = "multi_select_dict" -> visit_multi_select_dict_heap(n, v, st)
      [] method = "multi_select_list" -> visit_multi_select_list_heap(n, v, st)
      [] method = "or_expression" -> visit_or_expression_heap(n, v, st)
      [] method = "projection" -> visit_projection_heap(n, v, st)
      [] method = "value_projection" -> visit_value_projection_heap(n, v, st)
      [] OTHER -> Raise("NotImplementedError", st)

\* Visitor.visit
visit_heap(n, v, st) ==
    LET node_type == n.type
        hit == node_type \in DOMAIN st.mc
        method == IF hit THEN st.mc[node_type] ELSE getattr_visit(node_type)
        mc1 == IF hit THEN st.mc ELSE (node_type :> method) @@ st.mc
    IN  Invoke_heap(method, n, v, [st EXCEPT !.mc = mc1])

----------------------------------------------------------------------------
(* Calls on the interpreter over objects: heap holds the objects of the    *)
(* document and of the tree when the call begins, and what the call made   *)
(* of them and added to them when it has ended; result.val is a scalar or  *)
(* a reference into heap.                                                  *)

\* The caller hands a tree and a document, both already built, to the interpreter
CallHeap(t, d) ==
    /\ pc \in {"new", "idle"}
    /\ pc' = "called"
    /\ node' = t
    /\ value' = d
    /\ result' = NoResult
    /\ heap' = Loaded(t, d).objs
    /\ UNCHANGED <<method_cache, visited, dispatched, threads, writes, reco_engine>>

\* interpreter.visit(tree, document), run to its end
EvaluateHeap ==
    /\ pc = "called"
    /\ LET r == visit_heap(Loaded(node, value).tree, Loaded(node, value).doc,
                           [mc |-> method_cache, objs |-> heap])
       IN  /\ result' = [exc |-> r.exc, val |-> r.val]
           /\ method_cache' = r.st.mc
           /\ heap' = r.st.objs
           /\ pc' = IF r.exc = "" THEN "returned" ELSE "raised"
    /\ UNCHANGED <<node, value, visited, dispatched, threads, writes, reco_engine>>

\* The caller takes the outcome and lets go of the document and the result
FinishHeap ==
    /\ pc \in {"returned", "raised"}
    /\ pc' = "idle"
    /\ value' = PyNone
    /\ result' = NoResult
    /\ heap' = <<>>
    /\ UNCHANGED <<node, method_cache, visited, dispatched, threads, writes, reco_engine>>

SearchHeap(trees, docs) ==
    \/ /\ pc = "new"
       /\ \E t \in trees, d \in docs : CallHeap(t, d)
    \/ /\ pc = "idle"
       /\ \E d \in docs : CallHeap(node, d)

HeapElems ==
    {PyInt(1), PyNone, PyList(<<>>), PyList(<<PyInt(2)>>),
     PyList(<<PyList(<<PyInt(1)>>)>>), PyDict(<<"a">>, <<PyList(<<PyInt(1)>>)>>),
     PyDict(<<"b", "a">>, <<PyInt(1), PyInt(2)>>)}

HeapDocs ==
    {PyNone, PyInt(1)}
    \cup {PyList(xs) : xs \in SeqsUpTo(HeapElems, MaxLen)}
    \cup {PyDict(<<"a", "b">>, <<x, y>>) : x \in HeapElems, y \in HeapElems}

HeapLeaves ==
    {Identity, Field("a"), Index(0), Literal(PyList(<<PyList(<<PyInt(1)>>), PyInt(2)>>))}

HeapInner ==
    HeapLeaves \cup {Flatten(Identity), Projection(Identity, Field("a")),
                     MultiSelectList(<<Identity, Field("a")>>)}

HeapTrees ==
    {Flatten(c) : c \in HeapInner}
    \cup {Projection(l, r) : l \in HeapLeaves, r \in HeapInner}
    \cup {ValueProjection(Identity, r) : r \in HeapInner}
    \cup {FilterProjection(Identity, r, Field("a")) : r \in HeapInner}
    \cup {MultiSelectList(<<l, r>>) : l \in HeapLeaves, r \in HeapInner}
    \cup {MultiSelectDict(<<KeyValPair("a", l), KeyValPair("a", r)>>) :
            l \in HeapLeaves, r \in HeapInner}
    \cup {OrExpression(Field("b"), r) : r \in HeapInner}
    \cup {Pipe(<<l, Flatten(Identity)>>) : l \in HeapInner}
    \cup {Comparator("eq", Flatten(Identity), r) : r \in HeapLeaves}

NextHeap == SearchHeap(HeapTrees, HeapDocs) \/ EvaluateHeap \/ FinishHeap

SpecHeap == Init /\ [][NextHeap]_vars

\* The node types whose handler answers with a list or dict it collected
Builders ==
    {"flatten", "projection", "filter_projection", "value_projection",
     "multi_select_list", "multi_select_dict"}

\* C25: a call leaves the tree and the document as they were: every list
\* and dict that existed when the call began (those of the document and of
\* the tree's literals) holds what it held, whatever the call returned or
\* raised; the cache alone changed. A handler that answers with a list or
\* dict it collected answers with an object made during the call, and the
\* result read through the heap is the value of the evaluation.
C25_CallLeavesTreeAndDocumentUnchanged ==
    (pc \in {"returned", "raised"} /\ heap # <<>>) =>
        LET before == Loaded(node, value)
        IN  /\ Len(heap) >= Len(before.objs)
            /\ SubSeq(heap, 1, Len(before.objs)) = before.objs
            /\ Decode(before.doc, heap) = value
            /\ (node.type \in Builders /\ result.val.k = "ref") =>
                  result.val.n > Len(before.objs)
            /\ result.exc = Outcome(node, value).exc
            /\ Decode(result.val, heap) = Outcome(node, value).val

C25_Witness ==
    /\ pc = "returned"
    /\ node = Flatten(Identity)
    /\ value = PyList(<<PyList(<<PyInt(2)>>), PyList(<<PyList(<<PyInt(1)>>)>>)>>)
    /\ result.val.k = "ref"
    /\ Decode(result.val, heap) = PyList(<<PyInt(2), PyList(<<PyInt(1)>>)>>)
    /\ Len(heap) = 1 + Len(Loaded(node, value).objs)

----------------------------------------------------------------------------
(* filter_projection against or_expression, over the calls of SpecFilter *)

\* An or_expression with this left child returns its left result on e: the
\* right child is not visited
OrReturnsLeft(left, e) ==
    LET both == Outcome(OrExpression(left, Literal(PyStr("fallback"))), e)
    IN  Len(both.st.log) = 1 + Len(Outcome(left, e).st.log)

RECURSIVE PassedLikeOr(_, _)
\* The elements of base on which an or_expression would keep the predicate's result
PassedLikeOr(pred, base) ==
    IF base = <<>> THEN <<>>
    ELSE (IF OrReturnsLeft(pred, Head(base)) THEN <<Head(base)>> ELSE <<>>)
         \o PassedLikeOr(pred, Tail(base))

\* C26: filter_projection and or_expression agree on truthiness: an element
\* is passed to the projection child iff an or_expression whose left child
\* is the predicate returns its left result on that element, that is iff
\* the predicate's result is not one of "", [], {}, null, false; a
\* predicate result of numeric zero keeps the element.
C26_FilterAgreesWithOrOnTruthiness ==
    (Ended("filter_projection") /\ Outcome(node.children[1], value).val.k = "list") =>
        LET base == Outcome(node.children[1], value).val.items
        IN  /\ \A i \in 1..Len(base) :
                  OrReturnsLeft(node.children[3], base[i])
                      <=> Outcome(node.children[3], base[i]).val \notin Falsy
            /\ result.val =
                  PyList(SelectSeq(Mapped(node.children[2],
                                          PassedLikeOr(node.children[3], base)), NotNull))

----------------------------------------------------------------------------
(* Symmetry of eq and ne, over the literal pairs of SpecComparator *)

\* The same comparator with its two children exchanged
Exchanged(n, v) == Outcome(Comparator(n.value.s, n.children[2], n.children[1]), v)

\* C27: eq and ne are symmetric: for all values x and y, every combination
\* of 0, 1, true and false included, eq(x, y) = eq(y, x) and
\* ne(x, y) = ne(y, x).
C27_EqAndNeAreSymmetric ==
    (ComparedLiterals("eq") \/ ComparedLiterals("ne")) =>
        /\ Exchanged(node, value).exc = ""
        /\ result.val = Exchanged(node, value).val

C27_Witness ==
    /\ ComparedLiterals("eq")
    /\ node.children[1].value = PyTrue
    /\ node.children[2].value = PyInt(1)
    /\ result.val = PyFalse
    /\ Exchanged(node, value).val = PyFalse

----------------------------------------------------------------------------
(* Termination and the number of visits *)

TermDocs ==
    {PyNone, PyStr("a"), PyList(<<>>),
     PyDict(<<"a", "b">>, <<PyList(<<PyInt(1), PyInt(2)>>), PyDict(<<"a">>, <<PyInt(1)>>)>>),
     PyList(<<PyInt(1), PyList(<<PyInt(1), PyList(<<PyInt(2)>>)>>)>>),
     PyList(<<PyList(<<PyInt(1), PyList(<<PyInt(2)>>)>>), PyInt(1)>>),
     PyList(<<PyDict(<<"a">>, <<PyList(<<PyInt(1)>>)>>),
              PyList(<<PyList(<<>>), PyList(<<PyInt(1), PyInt(2)>>)>>),
              PyDict(<<"a">>, <<PyList(<<PyInt(1)>>)>>)>>),
     PyList(<<PyList(<<PyList(<<>>), PyList(<<PyInt(1), PyInt(2)>>)>>),
              PyList(<<PyInt(1), PyList(<<PyInt(2)>>)>>)>>)}

Twice == MultiSelectList(<<Identity, Identity>>)

TermInner ==
    {Identity, Field("a"), Twice, Flatten(Identity), Projection(Identity, Identity),
     Projection(Identity, Projection(Identity, Identity)),
     Literal(PyList(<<PyInt(1), PyList(<<PyInt(2)>>)>>)),
     FunctionExpression("map", <<Expref(Twice), Identity>>)}

TermLeft == {Identity, Field("a"), Twice, Flatten(Identity)}

TermTrees ==
    {Projection(l, r) : l \in TermLeft, r \in TermInner}
    \cup {Pipe(<<Twice, Flatten(Identity), Projection(Identity, r)>>) : r \in TermInner}
    \cup {FilterProjection(Identity, r, Identity) : r \in TermInner}
    \cup {FilterProjection(Identity, Identity, r) : r \in TermInner}
    \cup {ValueProjection(l, r) : l \in {Identity, Field("b")}, r \in TermInner}
    \cup {OrExpression(Field("a"), r) : r \in TermInner}
    \cup {MultiSelectDict(<<KeyValPair("a", r), KeyValPair("b", Twice)>>) : r \in TermInner}
    \cup {FunctionExpression("map", <<Expref(r), l>>) : l \in {Identity, Twice}, r \in TermInner}
    \cup {FunctionExpression("length", <<r>>) : r \in TermInner}
    \cup {Comparator("lt", Twice, r) : r \in TermInner}
    \cup {Projection(Identity, Unknown("slice"))}

NextTerminates == Search(TermTrees, TermDocs) \/ Evaluate \/ Finish

\* evaluate is synchronous: once called, it runs. This is WF_vars(Evaluate)
\* with ENABLED <<Evaluate>>_vars written out: a call that was made, and
\* only that, can take an Evaluate step
EvaluateRuns == []<>(pc # "called") \/ []<><<Evaluate>>_vars

SpecTerminates == Init /\ [][NextTerminates]_vars /\ EvaluateRuns

RECURSIVE ValueSize(_), SumValueSize(_, _)
\* The number of scalars, lists and dicts in a value
ValueSize(v) == IF v.k \in {"list", "dict"} THEN 1 + SumValueSize(v.items, 1) ELSE 1

SumValueSize(xs, i) ==
    IF i > Len(xs) THEN 0 ELSE ValueSize(xs[i]) + SumValueSize(xs, i + 1)

Max(a, b) == IF a >= b THEN a ELSE b

\* The function node hands a deferred expression and a list to map
CallsMap(n) ==
    n.type = "function_expression" /\ n.value.s = "map" /\ Len(n.children) = 2
                                   /\ n.children[1].type = "expref"

RECURSIVE ResultBound(_, _), ChainResultBound(_, _, _), SumResultBound(_, _, _)
\* A bound on the size of the result of n on a value of size at most s,
\* from the shape of n alone
ResultBound(n, s) ==
    CASE n.type \in {"identity", "current", "field", "index"} -> s
      [] n.type = "literal" -> ValueSize(n.value)
      [] n.type \in {"sub_expression", "index_expression", "pipe"} ->
             ChainResultBound(n.children, 1, s)
      [] n.type = "or_expression" ->
             Max(ResultBound(n.children[1], s), ResultBound(n.children[2], s))
      [] n.type \in {"projection", "value_projection", "filter_projection"} ->
             LET b == ResultBound(n.children[1], s)
             IN  1 + b * ResultBound(n.children[2], b)
      [] n.type = "flatten" -> ResultBound(n.children[1], s)
      [] n.type \in {"multi_select_list", "multi_select_dict"} ->
             1 + SumResultBound(n.children, 1, s)
      [] n.type = "key_val_pair" -> ResultBound(n.children[1], s)
      [] CallsMap(n) ->
             LET b == ResultBound(n.children[2], s)
             IN  1 + b * ResultBound(n.children[1].children[1], b)
      [] OTHER -> 1

ChainResultBound(children, i, s) ==
    IF i > Len(children) THEN s
    ELSE ChainResultBound(children, i + 1, ResultBound(children[i], s))

SumResultBound(children, i, s) ==
    IF i > Len(children) THEN 0
    ELSE ResultBound(children[i], s) + SumResultBound(children, i + 1, s)

RECURSIVE VisitBound(_, _), ChainVisitBound(_, _, _), SumVisitBound(_, _, _)
\* A bound on the number of visits that evaluating n on a value of size at
\* most s makes, from the shape of n alone: a handler visits each child
\* once, or once per element of the list it walks
VisitBound(n, s) ==
    CASE n.type \in {"sub_expression", "index_expression", "pipe"} ->
             1 + ChainVisitBound(n.children, 1, s)
      [] n.type \in {"projection", "value_projection"} ->
             LET b == ResultBound(n.children[1], s)
             IN  1 + VisitBound(n.children[1], s) + b * VisitBound(n.children[2], b)
      [] n.type = "filter_projection" ->
             LET b == ResultBound(n.children[1], s)
             IN  1 + VisitBound(n.children[1], s)
                   + b * (VisitBound(n.children[3], b) + VisitBound(n.children[2], b))
      [] n.type = "expref" -> 1
      [] CallsMap(n) ->
             LET b == ResultBound(n.children[2], s)
             IN  1 + SumVisitBound(n.children, 1, s)
                   + b * VisitBound(n.children[1].children[1], b)
      [] n.type \in VisitMethods -> 1 + SumVisitBound(n.children, 1, s)
      [] OTHER -> 1

ChainVisitBound(children, i, s) ==
    IF i > Len(children) THEN 0
    ELSE VisitBound(children[i], s)
         + ChainVisitBound(children, i + 1, ResultBound(children[i], s))

SumVisitBound(children, i, s) ==
    IF i > Len(children) THEN 0
    ELSE VisitBound(children[i], s) + SumVisitBound(children, i + 1, s)

\* An evaluate call, once made, ends
Terminates == (pc = "called") ~> (pc \in {"returned", "raised"})

\* C28: evaluation terminates. For every finite tree and finite document,
\* the function calls returning or failing, a call that was made ends with
\* a value or an error; the number of visits it made is within a bound
\* computed from the sizes of the tree and the document alone (each child
\* once, or once per element walked), and so is the size of its result.
C28_EvaluationTerminates ==
    /\ Terminates
    /\ [](pc \in {"returned", "raised"} =>
             /\ Len(visited) <= VisitBound(node, ValueSize(value))
             /\ pc = "returned" => ValueSize(result.val) <= ResultBound(node, ValueSize(value)))

C28_Witness ==
    /\ pc = "returned"
    /\ node = Pipe(<<Twice, Flatten(Identity),
                     Projection(Identity, Projection(Identity, Projection(Identity, Identity)))>>)
    /\ value = PyList(<<PyList(<<PyInt(1), PyList(<<PyInt(2)>>)>>), PyInt(1)>>)
    /\ Len(visited) > 20

\* ---------------------------------------------------------------------
\* reco.py: recommendations near a place
\* ---------------------------------------------------------------------

\* k=200 of the first recommend call and k=1000 of the second, scaled down
TopFirst == 6

TopSecond == 10

\* if cnt >= 5: break
Enough == 5

\* if cnt < 3: ask for the longer list
TooFew == 3

\* find_dist(...) <= 1000, in metres
Radius == 1000

Min(a, b) == IF a <= b THEN a ELSE b

\* The catalogue holds more businesses than the longer list can show
NumBusiness == TopSecond + 1

Businesses == 1 .. NumBusiness

Users == {"u"}

\* businessDF = pd.DataFrame(business2), one row per business; a business
\* is named by its number
BusinessFrames ==
    { [b \in Businesses |->
          [business_id |-> b, name |-> b, latitude |-> la[b], longitude |-> 0]] :
      la \in [Businesses -> {2, 3}] }

\* What the loaded model holds for a user: the businesses it would
\* recommend, best first
Rankings ==
    { [i \in 1 .. n |-> i] : n \in 0 .. NumBusiness }
        \cup { [i \in 1 .. NumBusiness |-> NumBusiness + 1 - i] }

\* Places are points of a grid with cells of 500 metres; the distance is
\* measured along the grid
great_circle(point1, point2) ==
    LET dlat == IF point1[1] >= point2[1] THEN point1[1] - point2[1]
                ELSE point2[1] - point1[1]
        dlon == IF point1[2] >= point2[2] THEN point1[2] - point2[2]
                ELSE point2[2] - point1[2]
    IN  500 * (dlat + dlon)

\* fact_reco_model.recommend(users = [user], items = items, k = k): the k
\* best businesses of the user, best first, fewer when the model has fewer
recommend(user, k) ==
    LET ranked == fact_reco_model[user]
    IN  [i \in 1 .. Min(k, Len(ranked)) |->
            [user_id |-> user, business_id |-> ranked[i], rank |-> i]]

find_dist(lat, lon, business_id) ==
    LET busi == businessDF[business_id]
        lat1 == busi.latitude
        lon1 == busi.longitude
    IN  great_circle(<<lat, lon>>, <<lat1, lon1>>)

\* item['lat'], item['lon'], item['name'] of the business's row
Item(business_id) ==
    LET busi == businessDF[business_id]
    IN  [lat |-> busi.latitude, lon |-> busi.longitude, name |-> busi.name]

RECURSIVE ForReco(_, _, _, _, _)

\* The loop going on after five businesses were found
ForReco_without_break(fact_reco_recomm, i, lat, lon, acc) ==
    IF i > Len(fact_reco_recomm) THEN acc
    ELSE LET reco == fact_reco_recomm[i]
         IN  IF find_dist(lat, lon, reco.business_id) <= Radius
             THEN ForReco(fact_reco_recomm, i + 1, lat, lon,
                          [cnt |-> acc.cnt + 1,
                           result |-> Append(acc.result, Item(reco.business_id))])
             ELSE ForReco(fact_reco_recomm, i + 1, lat, lon, acc)

\* for reco in fact_reco_recomm: from the i-th recommendation on, with
\* acc the cnt and the result so far
ForReco(fact_reco_recomm, i, lat, lon, acc) ==
    IF i > Len(fact_reco_recomm) THEN acc
    ELSE LET reco == fact_reco_recomm[i]
         IN  IF find_dist(lat, lon, reco.business_id) <= Radius
             THEN LET found == [cnt |-> acc.cnt + 1,
                                result |-> Append(acc.result, Item(reco.business_id))]
                  IN  IF found.cnt >= Enough THEN found
                      ELSE ForReco(fact_reco_recomm, i + 1, lat, lon, found)
             ELSE ForReco(fact_reco_recomm, i + 1, lat, lon, acc)

\* The second pass adding to what the first pass found
give_reco_keeping_first_pass(user, lat, lon) ==
    LET first == ForReco(recommend(user, TopFirst), 1, lat, lon,
                         [cnt |-> 0, result |-> <<>>])
    IN  IF first.cnt < TooFew
        THEN LET second == ForReco(recommend(user, TopSecond), 1, lat, lon,
                                   [cnt |-> 0, result |-> first.result])
             IN  [items |-> second.result, calls |-> <<TopFirst, TopSecond>>]
        ELSE [items |-> first.result, calls |-> <<TopFirst>>]

\* give_reco(user, lat, lon): what it returns under "items", and the k of
\* each recommend call it made
give_reco(user, lat, lon) ==
    LET first == ForReco(recommend(user, TopFirst), 1, lat, lon,
                         [cnt |-> 0, result |-> <<>>])
    IN  IF first.cnt < TooFew
        THEN LET second == ForReco(recommend(user, TopSecond), 1, lat, lon,
                                   [cnt |-> 0, result |-> <<>>])
             IN  [items |-> second.result, calls |-> <<TopFirst, TopSecond>>]
        ELSE [items |-> first.result, calls |-> <<TopFirst>>]

\* The business table and the model are loaded when the module is imported
InitReco ==
    /\ pc = "new"
    /\ node = Node("identity", PyNone, <<>>)
    /\ value = PyNone
    /\ result = NoResult
    /\ method_cache = <<>>
    /\ visited = <<>>
    /\ dispatched = <<>>
    /\ threads = <<>>
    /\ writes = <<>>
    /\ heap = <<>>
    /\ businessDF \in BusinessFrames
    /\ fact_reco_model \in [Users -> Rankings]
    /\ request = NoRequest

\* Somebody asks what is good to eat around (lat, lon)
Request(user, lat, lon) ==
    /\ request.pc = "idle"
    /\ request' = [pc |-> "called", user |-> user, lat |-> lat, lon |-> lon,
                   items |-> <<>>, calls |-> <<>>]
    /\ UNCHANGED <<pc, node, value, result, method_cache, visited, dispatched,
                   threads, writes, heap, businessDF, fact_reco_model>>

\* give_reco(user, lat, lon), run to its return
GiveReco ==
    /\ request.pc = "called"
    /\ LET r == give_reco(request.user, request.lat, request.lon)
       IN  request' = [request EXCEPT !.pc = "returned", !.items = r.items,
                                      !.calls = r.calls]
    /\ UNCHANGED <<pc, node, value, result, method_cache, visited, dispatched,
                   threads, writes, heap, businessDF, fact_reco_model>>

\* The answer is sent; the table and the model stay loaded
Respond ==
    /\ request.pc = "returned"
    /\ request' = NoRequest
    /\ UNCHANGED <<pc, node, value, result, method_cache, visited, dispatched,
                   threads, writes, heap, businessDF, fact_reco_model>>

Ask == \E user \in Users, lat \in {0, 1}, lon \in {0, 1} : Request(user, lat, lon)

NextReco == Ask \/ GiveReco \/ Respond

SpecReco == InitReco /\ [][NextReco]_vars

\* The recommendations of a list that lie within the radius of the place
\* asked about, in the order of the list
Nearby(list) ==
    SelectSeq(list, LAMBDA reco :
        great_circle(<<request.lat, request.lon>>,
                     <<businessDF[reco.business_id].latitude,
                       businessDF[reco.business_id].longitude>>) <= Radius)

\* The list the returned entries were taken from: that of the last
\* recommend call
TakenFrom == recommend(request.user, request.calls[Len(request.calls)])

\* C29: give_reco returns at most 5 entries, every entry is a business
\* within 1000 metres of (lat, lon), and the entries are the first nearby
\* businesses of the recommendation list they were taken from, in its rank
\* order: no later one is chosen over an earlier nearby one
C29_AtMostFiveNearbyInRankOrder ==
    request.pc = "returned" =>
        LET near == Nearby(TakenFrom)
        IN  /\ Len(request.items) <= 5
            /\ \A i \in 1 .. Len(request.items) :
                   great_circle(<<request.lat, request.lon>>,
                                <<request.items[i].lat, request.items[i].lon>>) <= 1000
            /\ Len(request.items) = Min(5, Len(near))
            /\ \A i \in 1 .. Len(request.items) :
                   /\ request.items[i].name = businessDF[near[i].business_id].name
                   /\ request.items[i].lat = businessDF[near[i].business_id].latitude
                   /\ request.items[i].lon = businessDF[near[i].business_id].longitude

\* Five entries were returned although a sixth business of the list is
\* nearby, and the best-ranked business of the list is too far and was
\* passed over
C29_Witness ==
    /\ request.pc = "returned"
    /\ Len(request.items) = 5
    /\ Len(Nearby(TakenFrom)) >= 6
    /\ Nearby(TakenFrom)[1].rank > 1

\* How many of the first k recommendations are nearby
NearbyAmong(k) == Len(Nearby(recommend(request.user, k)))

\* C30: the second pass over the longer list runs exactly when fewer than
\* 3 of the shorter list are nearby; when it runs, what is returned is
\* built from the longer list alone, whatever the first pass had found;
\* and fewer than 3 entries are returned only when fewer than 3 of the
\* longer list are nearby
C30_FallbackReplacesFirstPass ==
    request.pc = "returned" =>
        /\ request.calls[1] = TopFirst
        /\ Len(request.calls) = (IF NearbyAmong(TopFirst) < 3 THEN 2 ELSE 1)
        /\ Len(request.calls) = 2 =>
               /\ request.calls[2] = TopSecond
               /\ LET near == Nearby(recommend(request.user, TopSecond))
                  IN  request.items =
                          [i \in 1 .. Min(5, Len(near)) |-> Item(near[i].business_id)]
        /\ Len(request.items) < 3 => NearbyAmong(TopSecond) < 3

\* The first pass found two nearby businesses, too few; they were dropped
\* and the second pass found five in the longer list
C30_Witness ==
    /\ request.pc = "returned"
    /\ request.calls = <<TopFirst, TopSecond>>
    /\ NearbyAmong(TopFirst) = 2
    /\ Len(request.items) = 5

====
